---- MODULE Spec2Model ----
(***************************************************************************)
(* Model of the scheduling engine of m1981/taskflow.                       *)
(*                                                                         *)
(* Times are minutes since midnight of day 0 (a datetime), durations and   *)
(* buffers are minutes (a timedelta).  Enum members are modelled by their  *)
(* value strings ("deep", "high", "fixed", ...).  project_id is modelled   *)
(* by a number standing for the string's rank in Python's string order.    *)
(***************************************************************************)
EXTENDS Integers, Sequences, FiniteSets, TLC

VARIABLES
    tasks,              \* argument of schedule(): List[Task]
    zones,              \* argument of schedule(): List[TimeBlockZone] (templates)
    existing_events,    \* argument of schedule(): List[Event]
    all_zones,          \* local of schedule(): the projected zones
    events,             \* local of schedule(): the accumulator list
    scheduled_task_ids, \* local of schedule()
    remaining_tasks,    \* local of schedule()
    pc,                 \* position inside schedule(): "start", "loop", "split", "done"
    task,               \* the task under split placement (NoTask otherwise)
    remaining_duration, \* local of _try_schedule_split_task
    chunk_count,        \* local of _try_schedule_split_task
    task_events,        \* local of _try_schedule_split_task
    current_events,     \* local of _try_schedule_split_task
    result,             \* the returned list (<<>> until the call returns)
    attempts,           \* history: ids of the tasks attempted, in order
    placed,             \* history: [task, evs] of every successful placement, in order
    outcome,            \* history: how the call ended
    fn,                 \* the operation called on its own ("none" inside schedule())
    arg,                \* the arguments of that call, a record
    scan_time,          \* local current_time of find_available_slot: the candidate
    ret,                \* what that call returned (NotReturned until it returns)
    repo_tasks,         \* the task source: what get_tasks() returns
    calendar,           \* the calendar source: its events, in creation order
    calls,              \* the calls the Scheduler made on its collaborators in this call
    spc,                \* position inside the Scheduler method ("off" without Scheduler)
    written,            \* events passed to create_event so far
    ncalls,             \* history: number of Scheduler calls so far
    prev                \* history: fn, arg and ret of the previous Scheduler call,
                        \* and the calendar when the current call was entered

\* the state of a call of SequenceBasedStrategy.schedule
schedule_vars == <<tasks, zones, existing_events, all_zones, events,
                   scheduled_task_ids, remaining_tasks, pc, task,
                   remaining_duration, chunk_count, task_events, current_events,
                   result, attempts, placed, outcome>>

\* the state of a call of one of the stateless operations
call_vars == <<fn, arg, scan_time, ret>>

\* the state of the Scheduler and of its two collaborators
scheduler_vars == <<repo_tasks, calendar, calls, spc, written, ncalls, prev>>

vars == <<tasks, zones, existing_events, all_zones, events, scheduled_task_ids,
          remaining_tasks, pc, task, remaining_duration, chunk_count,
          task_events, current_events, result, attempts, placed, outcome,
          fn, arg, scan_time, ret,
          repo_tasks, calendar, calls, spc, written, ncalls, prev>>

-----------------------------------------------------------------------------
(* Program constants *)

\* timedelta(days=1) in minutes
Day == 1440
\* self._create_multi_day_zones(zones, days=7)
HorizonDays == 7
\* min(task.duration // 2, 120)
PreferredChunk == 120

(* Bounds of the model *)
MaxTasks == 2
\* the longest chunk_sizes list handed to Task.split
MaxChunks == 3

-----------------------------------------------------------------------------
(* Helpers *)

Max(a, b) == IF a >= b THEN a ELSE b

Min(a, b) == IF a <= b THEN a ELSE b

Range(s) == {s[i] : i \in 1..Len(s)}

\* mutant: the task is not taken out of the list
RemoveFirst_Keeps(s, x) == s

\* list.remove(x): drops the first element equal to x
RemoveFirst(s, x) ==
    LET i == CHOOSE k \in 1..Len(s) : s[k] = x /\ \A j \in 1..(k-1) : s[j] # x
    IN  [k \in 1..(Len(s)-1) |-> IF k < i THEN s[k] ELSE s[k+1]]

\* list.sort(key=lambda e: e.start) / sorted(zones, key=lambda z: z.start):
\* Python's sort is stable
SortByStart(s) ==
    LET n == Len(s)
        Rank(i) == 1 + Cardinality({j \in 1..n :
                          \/ s[j].start < s[i].start
                          \/ (s[j].start = s[i].start /\ j < i)})
    IN  [r \in 1..n |-> s[CHOOSE i \in 1..n : Rank(i) = r]]

-----------------------------------------------------------------------------
(* Data model *)

Event(id, start, end, type, buffer_required) ==
    [id |-> id, start |-> start, end |-> end, type |-> type,
     buffer_required |-> buffer_required]

\* a plain TimeBlock (not a zone)
TimeBlock(start, end, type, evs) ==
    [start |-> start, end |-> end, type |-> type, events |-> evs]

TimeBlockZone(start, end, zone_type, energy_level, min_duration, buffer_required, evs) ==
    [start |-> start, end |-> end, zone_type |-> zone_type,
     energy_level |-> energy_level, min_duration |-> min_duration,
     buffer_required |-> buffer_required, type |-> "zone", events |-> evs]

TaskConstraints(zone_type, energy_level, is_splittable, min_chunk_duration, max_split_count, required_buffer, dependencies) ==
    [zone_type |-> zone_type, energy_level |-> energy_level,
     is_splittable |-> is_splittable, min_chunk_duration |-> min_chunk_duration,
     max_split_count |-> max_split_count, required_buffer |-> required_buffer,
     dependencies |-> dependencies]

Task(id, duration, due_date, project_id, sequence_number, constraints) ==
    [id |-> id, duration |-> duration, due_date |-> due_date,
     project_id |-> project_id, sequence_number |-> sequence_number,
     constraints |-> constraints]

IsZone(time_block) == "zone_type" \in DOMAIN time_block

\* f"{task.id}_chunk_{chunk_count + 1}"
ChunkId(id, n) == id \o "_chunk_" \o ToString(n)

\* mutant: validate stops at the first rule that is violated
Validate_FirstOnly(t, now) ==
    IF t.duration <= 0 THEN <<"Task duration must be positive">>
    ELSE IF t.due_date < now THEN <<"Due date cannot be in the past">>
    ELSE IF t.sequence_number < 0 THEN <<"Sequence number must be non-negative">>
    ELSE IF /\ t.constraints.is_splittable
            /\ t.constraints.min_chunk_duration * t.constraints.max_split_count
                   > t.duration
    THEN <<"Total minimum chunk duration ("
              \o ToString(t.constraints.min_chunk_duration
                              * t.constraints.max_split_count)
              \o " min) exceeds task duration ("
              \o ToString(t.duration) \o " min)">>
    ELSE <<>>

\* Task.validate, lines 90-111: the list of errors; now is datetime.now()
Validate(t, now) ==
    LET total_min_duration ==
            t.constraints.min_chunk_duration * t.constraints.max_split_count
        errors1 == IF t.duration <= 0
                   THEN <<"Task duration must be positive">> ELSE <<>>
        errors2 == IF t.due_date < now
                   THEN Append(errors1, "Due date cannot be in the past")
                   ELSE errors1
        errors3 == IF t.sequence_number < 0
                   THEN Append(errors2, "Sequence number must be non-negative")
                   ELSE errors2
    IN  IF t.constraints.is_splittable /\ total_min_duration > t.duration
        THEN Append(errors3,
                    "Total minimum chunk duration ("
                        \o ToString(total_min_duration)
                        \o " min) exceeds task duration ("
                        \o ToString(t.duration) \o " min)")
        ELSE errors3

RECURSIVE Sum(_)
\* sum(chunk_sizes)
Sum(sizes) == IF sizes = <<>> THEN 0 ELSE Head(sizes) + Sum(Tail(sizes))

\* no ValueError is raised
NoError == "no error"

\* mutant: the check of is_splittable comes first
SplitError_SplittableFirst(t, chunk_sizes) ==
    IF ~t.constraints.is_splittable
    THEN "Task is not splittable"
    ELSE IF Len(chunk_sizes) > t.constraints.max_split_count
    THEN "Exceeds maximum split count of "
             \o ToString(t.constraints.max_split_count)
    ELSE IF Sum(chunk_sizes) # t.duration
    THEN "Sum of chunk sizes (" \o ToString(Sum(chunk_sizes))
             \o ") must equal task duration (" \o ToString(t.duration) \o ")"
    ELSE IF \E i \in 1..Len(chunk_sizes) :
                chunk_sizes[i] < t.constraints.min_chunk_duration
    THEN "All chunks must be at least "
             \o ToString(t.constraints.min_chunk_duration) \o " minutes"
    ELSE NoError

\* Task.split, lines 131-141: the message of the ValueError it raises
SplitError(t, chunk_sizes) ==
    IF Len(chunk_sizes) > t.constraints.max_split_count
    THEN "Exceeds maximum split count of "
             \o ToString(t.constraints.max_split_count)
    ELSE IF Sum(chunk_sizes) # t.duration
    THEN "Sum of chunk sizes (" \o ToString(Sum(chunk_sizes))
             \o ") must equal task duration (" \o ToString(t.duration) \o ")"
    ELSE IF \E i \in 1..Len(chunk_sizes) :
                chunk_sizes[i] < t.constraints.min_chunk_duration
    THEN "All chunks must be at least "
             \o ToString(t.constraints.min_chunk_duration) \o " minutes"
    ELSE IF ~t.constraints.is_splittable
    THEN "Task is not splittable"
    ELSE NoError

\* Task.split, lines 148-155: chunk_dependencies of chunk i
\* mutant: every later chunk keeps the dependencies of the task as well
ChunkDependencies_Inherit(t, i) ==
    IF i = 1 THEN t.constraints.dependencies
    ELSE t.constraints.dependencies \o <<ChunkId(t.id, i - 1)>>

ChunkDependencies(t, i) ==
    IF i = 1 THEN t.constraints.dependencies ELSE <<ChunkId(t.id, i - 1)>>

\* Task.split, lines 145 and 163: base_sequence + i
ChunkSequenceNumber(t, i) == t.sequence_number * 1000 + i

\* mutant: the chunks can be split again
SplitChunks_Splittable(t, chunk_sizes) ==
    [i \in 1..Len(chunk_sizes) |->
        Task(ChunkId(t.id, i), chunk_sizes[i], t.due_date, t.project_id,
             ChunkSequenceNumber(t, i),
             TaskConstraints(t.constraints.zone_type, t.constraints.energy_level,
                             t.constraints.is_splittable,
                             t.constraints.min_chunk_duration, 1,
                             t.constraints.required_buffer,
                             ChunkDependencies(t, i)))]

\* Task.split, lines 143-176: the chunks (the titles are not modelled)
SplitChunks(t, chunk_sizes) ==
    [i \in 1..Len(chunk_sizes) |->
        Task(ChunkId(t.id, i), chunk_sizes[i], t.due_date, t.project_id,
             ChunkSequenceNumber(t, i),
             TaskConstraints(t.constraints.zone_type, t.constraints.energy_level,
                             FALSE, t.constraints.min_chunk_duration, 1,
                             t.constraints.required_buffer,
                             ChunkDependencies(t, i)))]

-----------------------------------------------------------------------------
(* timeblock.py *)

\* mutant: an event that only touches an endpoint is returned as well
TimeBlockGetConflicts_Touching(block, start, duration) ==
    LET end == start + duration
        Hit(e) == start <= e.end /\ end >= e.start
    IN  SelectSeq(block.events, Hit)

\* mutant: the buffer margin of the zone is ignored
ZoneGetConflicts_NoBuffer(zone, start, duration) ==
    LET end == start + duration
        Hit(e) == start < e.end /\ end > e.start
    IN  SelectSeq(zone.events, Hit)

\* TimeBlock.get_conflicts
TimeBlockGetConflicts(block, start, duration) ==
    LET end == start + duration
        Hit(e) == start < e.end /\ end > e.start
    IN  SelectSeq(block.events, Hit)

\* TimeBlockZone.get_conflicts
ZoneGetConflicts(zone, start, duration) ==
    LET end == start + duration
        Hit(e) == start < e.end /\ end > e.start
        conflicts == SelectSeq(zone.events, Hit)
        buffer_start == start - zone.buffer_required
        buffer_end == start + duration + zone.buffer_required
        \* "event not in conflicts" compares objects by identity: the events
        \* of the first list are exactly those that satisfy Hit
        Near(e) == (buffer_start < e.end /\ buffer_end > e.start) /\ ~Hit(e)
    IN  IF zone.buffer_required > 0
        THEN conflicts \o SelectSeq(zone.events, Near)
        ELSE conflicts

\* TimeBlock.is_available
TimeBlockIsAvailable(block, start, duration) ==
    IF start < block.start \/ start + duration > block.end
    THEN FALSE
    ELSE Len(TimeBlockGetConflicts(block, start, duration)) = 0

\* TimeBlockZone.is_available
ZoneIsAvailable(zone, start, duration) ==
    IF duration < zone.min_duration
    THEN FALSE
    ELSE IF start < zone.start \/ start + duration > zone.end
    THEN FALSE
    ELSE Len(ZoneGetConflicts(zone, start, duration)) = 0

GetConflicts(time_block, start, duration) ==
    IF IsZone(time_block)
    THEN ZoneGetConflicts(time_block, start, duration)
    ELSE TimeBlockGetConflicts(time_block, start, duration)

-----------------------------------------------------------------------------
(* conflict.py *)

NoConflict == [message |-> "None", conflicting_events |-> <<>>]

SchedulingConflict(conflicting_events, message) ==
    [message |-> message, conflicting_events |-> conflicting_events]

\* find_conflicts lines 59-62, find_available_slot lines 142-145
RequiredBuffer(t, time_block) ==
    Max(t.constraints.required_buffer,
        IF IsZone(time_block) THEN time_block.buffer_required ELSE 0)

\* mutant: an event exactly required_buffer minutes away counts as too close
TooClose_Inclusive(e, proposed_start, proposed_end, required_buffer) ==
    \/ (e.end <= proposed_start /\ proposed_start - e.end <= required_buffer)
    \/ (e.start >= proposed_end /\ e.start - proposed_end <= required_buffer)

\* find_conflicts, lines 87-94: the condition of buffer_conflicts
TooClose(e, proposed_start, proposed_end, required_buffer) ==
    \/ (e.end <= proposed_start /\ proposed_start - e.end < required_buffer)
    \/ (e.start >= proposed_end /\ e.start - proposed_end < required_buffer)

\* mutant: the minimum duration is checked before zone type and energy level
ZoneRuleConflict_DurationFirst(t, time_block) ==
    IF t.duration < time_block.min_duration
    THEN SchedulingConflict(<<>>,
             "Task duration below zone minimum ("
                 \o ToString(time_block.min_duration) \o " min)")
    ELSE IF time_block.zone_type # t.constraints.zone_type
    THEN SchedulingConflict(<<>>,
             "Task requires " \o t.constraints.zone_type \o " zone")
    ELSE IF time_block.energy_level # t.constraints.energy_level
    THEN SchedulingConflict(<<>>,
             "Task requires " \o t.constraints.energy_level \o " energy level")
    ELSE NoConflict

\* find_conflicts, lines 106-128: the checks of a TimeBlockZone
ZoneRuleConflict(t, time_block) ==
    IF time_block.zone_type # t.constraints.zone_type
    THEN SchedulingConflict(<<>>,
             "Task requires " \o t.constraints.zone_type \o " zone")
    ELSE IF time_block.energy_level # t.constraints.energy_level
    THEN SchedulingConflict(<<>>,
             "Task requires " \o t.constraints.energy_level \o " energy level")
    ELSE IF t.duration < time_block.min_duration
    THEN SchedulingConflict(<<>>,
             "Task duration below zone minimum ("
                 \o ToString(time_block.min_duration) \o " min)")
    ELSE NoConflict

\* ConflictDetector.find_conflicts
FindConflicts(t, proposed_start, time_block) ==
    LET proposed_end == proposed_start + t.duration
        required_buffer == RequiredBuffer(t, time_block)
        total_duration == t.duration + 2 * required_buffer
        buffer_start == proposed_start - required_buffer
        all_conflicts == GetConflicts(time_block, buffer_start, total_duration)
        Direct(e) == e.start < proposed_end /\ e.end > proposed_start
        direct_conflicts == SelectSeq(all_conflicts, Direct)
        Close(e) == TooClose(e, proposed_start, proposed_end, required_buffer)
        buffer_conflicts == SelectSeq(all_conflicts, Close)
    IN  IF direct_conflicts # <<>>
        THEN SchedulingConflict(direct_conflicts, "Time slot has conflicting events")
        ELSE IF buffer_conflicts # <<>>
        THEN SchedulingConflict(buffer_conflicts,
                 "Buffer requirement of " \o ToString(required_buffer)
                     \o " minutes not met")
        ELSE IF IsZone(time_block)
        THEN ZoneRuleConflict(t, time_block)
        ELSE NoConflict


\* mutant: the scan advances by half an hour
ScanStep_HalfHour == 15 + 15

\* current_time += timedelta(minutes=15)
ScanStep == 15

\* mutant: the scan starts at max(start_from, time_block.start) whatever
\* event ended before
FirstCandidate_NoAdvance(t, time_block, start_from) ==
    Max(start_from, time_block.start)

\* find_available_slot, lines 138-159: the first candidate of the scan
FirstCandidate(t, time_block, start_from) ==
    LET from == Max(start_from, time_block.start)
        all_events == time_block.events
        before == {i \in 1..Len(all_events) : all_events[i].end <= from}
        \* max(..., key=lambda e: e.end): the first of the events with the
        \* greatest end
        last == CHOOSE i \in before :
                    /\ \A j \in before : all_events[j].end <= all_events[i].end
                    /\ \A j \in before :
                          j < i => all_events[j].end < all_events[i].end
    IN  IF before = {}
        THEN from
        ELSE Max(from, all_events[last].end + RequiredBuffer(t, time_block))

\* find_available_slot, line 139: end_time
SlotEndTime(t, time_block) == Min(t.due_date, time_block.end)

\* the return value None of an Optional
None == [none |-> TRUE]

\* str() of a ZoneType member, as an f-string prints it
ZoneTypeStr(v) ==
    CASE v = "deep"  -> "ZoneType.DEEP"
      [] v = "light" -> "ZoneType.LIGHT"
      [] v = "admin" -> "ZoneType.ADMIN"

\* str() of an EnergyLevel member, as an f-string prints it
EnergyLevelStr(v) ==
    CASE v = "high"   -> "EnergyLevel.HIGH"
      [] v = "medium" -> "EnergyLevel.MEDIUM"
      [] v = "low"    -> "EnergyLevel.LOW"

\* ZoneTransitionConflict(message, start_zone, end_zone); the message is kept
\* as the sequence of the parts of its f-string, datetimes unformatted
ZoneTransitionConflict(message, start_zone, end_zone) ==
    [message |-> message, start_zone |-> start_zone, end_zone |-> end_zone]

\* mutant: the time gap is checked before the compatibility of the zones
TransitionConflict_GapFirst(current_zone, next_zone) ==
    IF next_zone.start > current_zone.end
    THEN ZoneTransitionConflict(
             <<"Gap between zones: ", current_zone.end, " -> ", next_zone.start>>,
             current_zone, next_zone)
    ELSE IF \/ current_zone.zone_type # next_zone.zone_type
            \/ current_zone.energy_level # next_zone.energy_level
    THEN ZoneTransitionConflict(
             <<"Incompatible zone transition: ",
               ZoneTypeStr(current_zone.zone_type), "/",
               EnergyLevelStr(current_zone.energy_level), " -> ",
               ZoneTypeStr(next_zone.zone_type), "/",
               EnergyLevelStr(next_zone.energy_level)>>,
             current_zone, next_zone)
    ELSE None

\* find_zone_transition_conflicts, lines 213-231: the checks of the next zone
TransitionConflict(current_zone, next_zone) ==
    IF \/ current_zone.zone_type # next_zone.zone_type
       \/ current_zone.energy_level # next_zone.energy_level
    THEN ZoneTransitionConflict(
             <<"Incompatible zone transition: ",
               ZoneTypeStr(current_zone.zone_type), "/",
               EnergyLevelStr(current_zone.energy_level), " -> ",
               ZoneTypeStr(next_zone.zone_type), "/",
               EnergyLevelStr(next_zone.energy_level)>>,
             current_zone, next_zone)
    ELSE IF next_zone.start > current_zone.end
    THEN ZoneTransitionConflict(
             <<"Gap between zones: ", current_zone.end, " -> ", next_zone.start>>,
             current_zone, next_zone)
    ELSE None

\* ConflictDetector.find_zone_transition_conflicts
FindZoneTransitionConflicts(t, start_time, zs) ==
    LET end_time == start_time + t.duration
        sorted_zones == SortByStart(zs)
        n == Len(sorted_zones)
        containing == {i \in 1..n : /\ sorted_zones[i].start <= start_time
                                    /\ start_time < sorted_zones[i].end}
        current_zone == sorted_zones[CHOOSE i \in containing :
                                        \A j \in containing : i <= j]
        \* sorted_zones.index(current_zone): the first zone equal to it
        index == CHOOSE i \in 1..n :
                     /\ sorted_zones[i] = current_zone
                     /\ \A j \in 1..(i - 1) : sorted_zones[j] # current_zone
        next_zone_index == index + 1
    IN  IF containing = {}
        THEN ZoneTransitionConflict(<<"No valid starting zone found">>, None, None)
        ELSE IF end_time > current_zone.end
        THEN IF next_zone_index > n
             THEN ZoneTransitionConflict(<<"Task extends beyond available zones">>,
                                         current_zone, None)
             ELSE TransitionConflict(current_zone, sorted_zones[next_zone_index])
        ELSE None

-----------------------------------------------------------------------------
(* scheduling/strategies.py *)

\* day_start.replace(hour=zone.start.hour, minute=zone.start.minute)
ReplaceTimeOfDay(day_start, t) == (day_start \div Day) * Day + (t % Day)

\* SequenceBasedStrategy._create_multi_day_zones
CreateMultiDayZones(base_zones, days) ==
    LET n == Len(base_zones)
        start_date == base_zones[1].start
    IN  [k \in 1..(days * n) |->
            LET day == (k - 1) \div n
                zone == base_zones[((k - 1) % n) + 1]
                day_start == start_date + day * Day
            IN  TimeBlockZone(ReplaceTimeOfDay(day_start, zone.start),
                              ReplaceTimeOfDay(day_start, zone.end),
                              zone.zone_type, zone.energy_level,
                              zone.min_duration, zone.buffer_required, <<>>)]

\* mutant: a slot begins where the event before it ends
FindAvailableSlotsWithDuration_NoBuffer(zone, evs, min_duration, required_buffer) ==
    LET InZone(e) == e.end > zone.start /\ e.start < zone.end
        zone_events == SortByStart(SelectSeq(evs, InZone))
        n == Len(zone_events)
        Fits(slot) == slot[2] - slot[1] >= min_duration
        first == << <<zone.start, zone_events[1].start>> >>
        between == [i \in 1..(n - 1) |->
                       <<zone_events[i].end, zone_events[i + 1].start>>]
        final == << <<zone_events[n].end, zone.end>> >>
    IN  IF n = 0
        THEN SelectSeq(<< <<zone.start, zone.end>> >>, Fits)
        ELSE SelectSeq(first \o between \o final, Fits)

\* SequenceBasedStrategy._find_available_slots_with_duration
FindAvailableSlotsWithDuration(zone, evs, min_duration, required_buffer) ==
    LET InZone(e) == e.end > zone.start /\ e.start < zone.end
        zone_events == SortByStart(SelectSeq(evs, InZone))
        n == Len(zone_events)
        Fits(slot) == slot[2] - slot[1] >= min_duration
        first == << <<zone.start, zone_events[1].start>> >>
        between == [i \in 1..(n - 1) |->
                       <<zone_events[i].end + required_buffer,
                         zone_events[i + 1].start>>]
        final == << <<zone_events[n].end + required_buffer, zone.end>> >>
    IN  IF n = 0
        THEN SelectSeq(<< <<zone.start, zone.end>> >>, Fits)
        ELSE SelectSeq(first \o between \o final, Fits)

\* mutant: the key leaves out sequence_number
TaskKeyLess_NoSequence(a, b) ==
    \/ a.due_date < b.due_date
    \/ (a.due_date = b.due_date /\ a.project_id < b.project_id)

\* the key of available_tasks.sort: (due_date, project_id, sequence_number)
TaskKeyLess(a, b) ==
    \/ a.due_date < b.due_date
    \/ (a.due_date = b.due_date /\ a.project_id < b.project_id)
    \/ (a.due_date = b.due_date /\ a.project_id = b.project_id
        /\ a.sequence_number < b.sequence_number)

\* mutant: any() in place of all()
DependenciesMet_Any(t, scheduled) ==
    \/ t.constraints.dependencies = <<>>
    \/ \E dep \in Range(t.constraints.dependencies) : dep \in scheduled

\* all(dep in scheduled_task_ids for dep in task.constraints.dependencies)
DependenciesMet(t, scheduled) ==
    \A dep \in Range(t.constraints.dependencies) : dep \in scheduled

\* available_tasks = [task for task in remaining_tasks if all(...)]
AvailableTasks(remaining, scheduled) ==
    LET Ready(t) == DependenciesMet(t, scheduled)
    IN  SelectSeq(remaining, Ready)

\* available_tasks.sort(key=...); task = available_tasks[0]
\* (a stable sort: the first of the tasks with the least key)
SelectTask(available) ==
    LET i == CHOOSE k \in 1..Len(available) :
                 /\ \A j \in 1..Len(available) : ~TaskKeyLess(available[j], available[k])
                 /\ \A j \in 1..(k - 1) : TaskKeyLess(available[k], available[j])
    IN  available[i]

\* mutant: the whole accumulator is returned
ManagedOnly_All(evs) == evs

\* [e for e in events if e.type == TimeBlockType.MANAGED]
ManagedOnly(evs) ==
    LET IsManaged(e) == e.type = "managed"
    IN  SelectSeq(evs, IsManaged)

\* mutant: every zone is tried from its start
SingleCandidate_ZoneStart(t, zone, evs) == zone.start

\* _try_schedule_task: the start time tried in one zone
SingleCandidate(t, zone, evs) ==
    IF evs # <<>>
    THEN LET last_event == evs[Len(evs)]
             required_buffer == Max(t.constraints.required_buffer,
                                    last_event.buffer_required)
         IN  Max(zone.start, last_event.end + required_buffer)
    ELSE zone.start

\* _try_schedule_task: whether the loop body places the task in this zone
SingleFits(t, zone, evs) ==
    /\ zone.zone_type = t.constraints.zone_type
    /\ SingleCandidate(t, zone, evs) + t.duration <= zone.end
    /\ FindConflicts(t, SingleCandidate(t, zone, evs), zone) = NoConflict

\* SequenceBasedStrategy._try_schedule_task: the event it appends, in the
\* first zone of the list that takes the task; ok = FALSE when it returns False
TryScheduleTask(t, zs, evs) ==
    LET fitting == {k \in 1..Len(zs) : SingleFits(t, zs[k], evs)}
    IN  IF fitting = {}
        THEN [ok |-> FALSE]
        ELSE LET k == CHOOSE i \in fitting : \A j \in fitting : i <= j
                 current_time == SingleCandidate(t, zs[k], evs)
             IN  [ok |-> TRUE,
                  event |-> Event(t.id, current_time, current_time + t.duration,
                                  "managed", t.constraints.required_buffer)]

\* _try_schedule_split_task: optimal_chunk_size
OptimalChunkSize(t) ==
    Max(Min(t.duration \div 2, PreferredChunk), t.constraints.min_chunk_duration)

\* mutant: the chunks are committed whatever is left of the duration
SplitSucceeded_Always(remaining) == TRUE

\* _try_schedule_split_task, line 229: if remaining_duration <= 0
SplitSucceeded(remaining) == remaining <= 0

\* mutant: the chunks placed so far stay in the list when the split fails
EventsAfterSplit_Partial(ok, evs, task_evs) == evs \o task_evs

\* _try_schedule_split_task, lines 229-234: events.extend(task_events) when
\* the split succeeded; the list of the caller is left alone when it returns
\* False (the chunks were appended to the copy current_events only)
EventsAfterSplit(ok, evs, task_evs) == IF ok THEN evs \o task_evs ELSE evs

\* mutant: the id of the first chunk is marked as scheduled too
MarkScheduled_Chunk(scheduled, id) == scheduled \cup {id, ChunkId(id, 1)}

\* scheduled_task_ids.add(task.id)
MarkScheduled(scheduled, id) == scheduled \cup {id}

\* _try_schedule_split_task: the for loop over sorted_zones of one chunk; the
\* event of the chunk, in the first zone that has a slot; ok = FALSE when none has
TryScheduleChunk(t, zs, evs, chunk_duration, count) ==
    LET sorted_zones == SortByStart(zs)
        Slots(k) == FindAvailableSlotsWithDuration(sorted_zones[k], evs,
                        chunk_duration, t.constraints.required_buffer)
        fitting == {k \in 1..Len(sorted_zones) :
                       /\ sorted_zones[k].zone_type = t.constraints.zone_type
                       /\ Slots(k) # <<>>}
    IN  IF fitting = {}
        THEN [ok |-> FALSE]
        ELSE LET k == CHOOSE i \in fitting : \A j \in fitting : i <= j
                 slot_start == Slots(k)[1][1]
             IN  [ok |-> TRUE,
                  event |-> Event(ChunkId(t.id, count + 1), slot_start,
                                  slot_start + chunk_duration, "managed",
                                  t.constraints.required_buffer)]

-----------------------------------------------------------------------------
(* The call SequenceBasedStrategy.schedule(tasks, zones, existing_events) *)

NoTask == [id |-> "none"]

\* the call has not returned
NotReturned == [returned |-> FALSE]

\* none of the stateless operations is called
NoCall ==
    /\ fn = "none"
    /\ arg = [none |-> TRUE]
    /\ scan_time = 0
    /\ ret = NotReturned

\* no Scheduler is involved
NoScheduler ==
    /\ repo_tasks = <<>>
    /\ calendar = <<>>
    /\ calls = <<>>
    /\ spc = "off"
    /\ written = 0
    /\ ncalls = 0
    /\ prev = [none |-> TRUE]

split_locals == <<task, remaining_duration, chunk_count, task_events, current_events>>

inputs == <<tasks, zones, existing_events>>

\* lines 10-11: if not zones: return []
NoZones ==
    /\ UNCHANGED <<call_vars, scheduler_vars>>
    /\ pc = "start"
    /\ zones = <<>>
    /\ result' = <<>>
    /\ outcome' = "nozones"
    /\ pc' = "done"
    /\ UNCHANGED <<inputs, all_zones, events, scheduled_task_ids, remaining_tasks,
                   split_locals, attempts, placed>>

\* lines 18-23: the locals of schedule
Start ==
    /\ UNCHANGED <<call_vars, scheduler_vars>>
    /\ pc = "start"
    /\ zones # <<>>
    /\ events' = existing_events
    /\ scheduled_task_ids' = {}
    /\ remaining_tasks' = tasks
    /\ all_zones' = CreateMultiDayZones(zones, HorizonDays)
    /\ pc' = "loop"
    /\ UNCHANGED <<inputs, split_locals, result, attempts, placed, outcome>>

\* line 26: the while condition is false; line 72: return
LoopExit ==
    /\ UNCHANGED <<call_vars, scheduler_vars>>
    /\ pc = "loop"
    /\ remaining_tasks = <<>>
    /\ result' = ManagedOnly(events)
    /\ outcome' = "complete"
    /\ pc' = "done"
    /\ UNCHANGED <<inputs, all_zones, events, scheduled_task_ids, remaining_tasks,
                   split_locals, attempts, placed>>

\* lines 36-41: no available task, break; line 72: return
Deadlock ==
    /\ UNCHANGED <<call_vars, scheduler_vars>>
    /\ pc = "loop"
    /\ remaining_tasks # <<>>
    /\ AvailableTasks(remaining_tasks, scheduled_task_ids) = <<>>
    /\ result' = ManagedOnly(events)
    /\ outcome' = "deadlock"
    /\ pc' = "done"
    /\ UNCHANGED <<inputs, all_zones, events, scheduled_task_ids, remaining_tasks,
                   split_locals, attempts, placed>>

\* lines 43-72 for a task that is not splittable: one iteration of the loop
\* with _try_schedule_task
AttemptSingle ==
    /\ UNCHANGED <<call_vars, scheduler_vars>>
    /\ pc = "loop"
    /\ AvailableTasks(remaining_tasks, scheduled_task_ids) # <<>>
    /\ LET t == SelectTask(AvailableTasks(remaining_tasks, scheduled_task_ids))
           r == TryScheduleTask(t, all_zones, events)
       IN  /\ ~t.constraints.is_splittable
           /\ attempts' = Append(attempts, t.id)
           /\ IF r.ok
              THEN /\ events' = Append(events, r.event)
                   /\ scheduled_task_ids' = MarkScheduled(scheduled_task_ids, t.id)
                   /\ remaining_tasks' = RemoveFirst(remaining_tasks, t)
                   /\ placed' = Append(placed, [task |-> t.id, evs |-> <<r.event>>])
                   /\ pc' = "loop"
                   /\ UNCHANGED <<result, outcome>>
              ELSE /\ result' = ManagedOnly(events)
                   /\ outcome' = "blocked"
                   /\ pc' = "done"
                   /\ UNCHANGED <<events, scheduled_task_ids, remaining_tasks, placed>>
    /\ UNCHANGED <<inputs, all_zones, split_locals>>

\* lines 43-54 and 159-177 for a splittable task: the call of
\* _try_schedule_split_task up to its while loop
BeginSplit ==
    /\ UNCHANGED <<call_vars, scheduler_vars>>
    /\ pc = "loop"
    /\ AvailableTasks(remaining_tasks, scheduled_task_ids) # <<>>
    /\ LET t == SelectTask(AvailableTasks(remaining_tasks, scheduled_task_ids))
       IN  /\ t.constraints.is_splittable
           /\ attempts' = Append(attempts, t.id)
           /\ task' = t
           /\ remaining_duration' = t.duration
    /\ chunk_count' = 0
    /\ task_events' = <<>>
    /\ current_events' = events
    /\ pc' = "split"
    /\ UNCHANGED <<inputs, all_zones, events, scheduled_task_ids, remaining_tasks,
                   result, placed, outcome>>

\* lines 181-220: one iteration of the while loop of _try_schedule_split_task;
\* when no zone has a slot it returns False and schedule breaks and returns
SplitChunk ==
    /\ UNCHANGED <<call_vars, scheduler_vars>>
    /\ pc = "split"
    /\ remaining_duration > 0
    /\ chunk_count < task.constraints.max_split_count
    /\ LET chunk_duration == Min(remaining_duration, OptimalChunkSize(task))
           r == TryScheduleChunk(task, all_zones, current_events, chunk_duration,
                                 chunk_count)
       IN  IF r.ok
           THEN /\ current_events' = Append(current_events, r.event)
                /\ task_events' = Append(task_events, r.event)
                /\ remaining_duration' = remaining_duration - chunk_duration
                /\ chunk_count' = chunk_count + 1
                /\ UNCHANGED <<task, events, result, outcome, pc>>
           ELSE /\ events' = EventsAfterSplit(FALSE, events, task_events)
                /\ result' = ManagedOnly(events')
                /\ outcome' = "blocked"
                /\ pc' = "done"
                /\ task' = NoTask
                /\ remaining_duration' = 0
                /\ chunk_count' = 0
                /\ task_events' = <<>>
                /\ current_events' = <<>>
    /\ UNCHANGED <<inputs, all_zones, scheduled_task_ids, remaining_tasks,
                   attempts, placed>>

\* lines 229-234 after the while loop, then lines 59-72 of schedule
SplitFinish ==
    /\ UNCHANGED <<call_vars, scheduler_vars>>
    /\ pc = "split"
    /\ ~(remaining_duration > 0 /\ chunk_count < task.constraints.max_split_count)
    /\ events' = EventsAfterSplit(SplitSucceeded(remaining_duration), events,
                                  task_events)
    /\ IF SplitSucceeded(remaining_duration)
       THEN /\ scheduled_task_ids' = MarkScheduled(scheduled_task_ids, task.id)
            /\ remaining_tasks' = RemoveFirst(remaining_tasks, task)
            /\ placed' = Append(placed, [task |-> task.id, evs |-> task_events])
            /\ pc' = "loop"
            /\ UNCHANGED <<result, outcome>>
       ELSE /\ result' = ManagedOnly(events')
            /\ outcome' = "blocked"
            /\ pc' = "done"
            /\ UNCHANGED <<scheduled_task_ids, remaining_tasks, placed>>
    /\ task' = NoTask
    /\ remaining_duration' = 0
    /\ chunk_count' = 0
    /\ task_events' = <<>>
    /\ current_events' = <<>>
    /\ UNCHANGED <<inputs, all_zones, attempts>>

-----------------------------------------------------------------------------
(* The inputs of the call *)

\* the default zone of scheduler.py (09:00-13:00, deep/high, min 30, buffer 15)
ZDeep == TimeBlockZone(540, 780, "deep", "high", 30, 15, <<>>)

\* a second template, as in the tests (13:00-17:00, light)
ZLight == TimeBlockZone(780, 1020, "light", "high", 30, 15, <<>>)

ZoneConfigs == {<<>>, <<ZDeep>>, <<ZDeep, ZLight>>, <<ZLight, ZDeep>>}

F1 == Event("F1", 570, 600, "fixed", 0)

F2 == Event("F2", 630, 660, "fixed", 0)

M0 == Event("M0", 690, 720, "managed", 15)

EventConfigs == {<<>>, <<F1>>, <<F2, F1>>, <<M0>>}

\* a fixed event at the end of the deep zone, 12:30-13:00
F3 == Event("F3", 750, 780, "fixed", 0)

\* an event of type ZONE, 12:00-13:00
Z0 == Event("Z0", 720, 780, "zone", 0)

TaskId(i) == <<"A", "B", "C", "D", "E">>[i]

\* [zone_type, energy_level, is_splittable, duration, min_chunk_duration,
\*  max_split_count, required_buffer]
Kinds ==
    { <<"deep",  "high", FALSE,  60, 30, 1, 15>>,
      <<"light", "high", FALSE,  60, 30, 1,  0>>,
      <<"deep",  "high", FALSE, 250, 30, 1,  0>>,
      <<"deep",  "high", TRUE,   90, 60, 2,  0>>,
      <<"light", "low",  TRUE,   60, 30, 2, 15>>,
      <<"deep",  "high", TRUE,  250, 30, 2, 15>> }

OrderKinds ==
    { <<"deep",  "high", FALSE,  60, 30, 1, 15>>,
      <<"deep",  "high", FALSE, 250, 30, 1,  0>> }

\* (due_date, project_id, sequence_number)
Keys == { <<Day, 1, 1>>, <<Day, 1, 2>>, <<Day, 2, 1>>, <<7 * Day, 1, 1>> }

DepSels == {"none", "next", "both"}

Dependencies(sel, i, n) ==
    CASE sel = "none"    -> <<>>
      [] sel = "next"    -> <<TaskId((i % n) + 1)>>
      [] sel = "both"    -> <<TaskId((i % n) + 1), "X">>
      [] sel = "chunk"   -> <<ChunkId(TaskId((i % n) + 1), 1)>>

MakeTask(i, n, kind, sel, key) ==
    Task(TaskId(i), kind[4], key[1], key[2], key[3],
         TaskConstraints(kind[1], kind[2], kind[3], kind[5], kind[6], kind[7],
                         Dependencies(sel, i, n)))

\* task lists that vary the placement constraints; listed in selection order
PlacementTaskLists ==
    UNION { { [i \in 1..n |-> MakeTask(i, n, c[i][1], c[i][2], <<Day, 1, i>>)] :
                c \in [1..n -> Kinds \X {"none", "next"}] } : n \in 0..MaxTasks }

\* task lists that vary the dependencies and the sort key
OrderTaskLists ==
    UNION { { [i \in 1..n |-> MakeTask(i, n, c[i][1], c[i][2], c[i][3])] :
                c \in [1..n -> OrderKinds \X DepSels \X Keys] } : n \in 0..MaxTasks }

\* splittable tasks that pass Task.validate: 250 minutes go into chunks of
\* 120, 120 and 10; 1800 minutes need 15 chunks of 120, one more than the
\* deep zone takes in the 7 days of the projection
SplitKinds ==
    { <<"deep",  "high", TRUE,  250, 30,  3, 0>>,
      <<"deep",  "high", TRUE, 1800, 30, 20, 0>> }

\* task lists of splittable tasks, with dependencies on the id of a chunk
SplitTaskLists ==
    UNION { { [i \in 1..n |-> MakeTask(i, n, c[i][1], c[i][2], <<Day, 1, i>>)] :
                c \in [1..n -> SplitKinds \X {"none", "chunk"}] } : n \in 0..MaxTasks }

\* the task of test_reschedule_splits_tasks_when_necessary: 240 minutes,
\* splittable, min_chunk_duration 60, max_split_count 4, required_buffer 15
SplittableTask ==
    Task("splittable", 240, 2 * Day, 1, 1,
         TaskConstraints("deep", "high", TRUE, 60, 4, 15, <<>>))

Inputs ==
    (PlacementTaskLists \X ZoneConfigs \X {<<>>})
        \cup (PlacementTaskLists \X {<<ZDeep>>} \X EventConfigs)
        \cup (OrderTaskLists \X {<<ZDeep>>} \X {<<>>})
        \cup (SplitTaskLists \X {<<ZDeep>>} \X {<<>>, <<Z0, F1>>})
        \cup ({<<SplittableTask>>} \X {<<ZDeep>>, <<ZLight, ZDeep>>}
                \X (EventConfigs \cup {<<F1, F3>>}))

Init ==
    /\ \E in \in Inputs :
          /\ tasks = in[1]
          /\ zones = in[2]
          /\ existing_events = in[3]
    /\ all_zones = <<>>
    /\ events = <<>>
    /\ scheduled_task_ids = {}
    /\ remaining_tasks = <<>>
    /\ pc = "start"
    /\ task = NoTask
    /\ remaining_duration = 0
    /\ chunk_count = 0
    /\ task_events = <<>>
    /\ current_events = <<>>
    /\ result = <<>>
    /\ attempts = <<>>
    /\ placed = <<>>
    /\ outcome = "running"
    /\ NoCall
    /\ NoScheduler


Next ==
    \/ NoZones
    \/ Start
    \/ LoopExit
    \/ Deadlock
    \/ AttemptSingle
    \/ BeginSplit
    \/ SplitChunk
    \/ SplitFinish

Spec == Init /\ [][Next]_vars

-----------------------------------------------------------------------------
(* Calls of the stateless operations of ConflictDetector: the arguments are
   drawn at the start, the actions are the steps of the operation called *)

Some(v) == [none |-> FALSE, value |-> v]

\* the call returned v
Returned(v) == [returned |-> TRUE, value |-> v]

\* no call of SequenceBasedStrategy.schedule is under way
NoSchedule ==
    /\ tasks = <<>>
    /\ zones = <<>>
    /\ existing_events = <<>>
    /\ all_zones = <<>>
    /\ events = <<>>
    /\ scheduled_task_ids = {}
    /\ remaining_tasks = <<>>
    /\ pc = "idle"
    /\ task = NoTask
    /\ remaining_duration = 0
    /\ chunk_count = 0
    /\ task_events = <<>>
    /\ current_events = <<>>
    /\ result = <<>>
    /\ attempts = <<>>
    /\ placed = <<>>
    /\ outcome = "idle"

\* ConflictDetector.find_conflicts(task, proposed_start, time_block)
FindConflictsCall ==
    /\ fn = "none"
    /\ fn' = "find_conflicts"
    /\ ret' = Returned(FindConflicts(arg.task, arg.start, arg.time_block))
    /\ UNCHANGED <<arg, scan_time, schedule_vars, scheduler_vars>>

\* ConflictDetector.find_available_slot(task, time_block, start_from),
\* lines 138-159: up to the while loop
FindAvailableSlotEnter ==
    /\ fn = "none"
    /\ fn' = "find_available_slot"
    /\ scan_time' = FirstCandidate(arg.task, arg.time_block, arg.start)
    /\ UNCHANGED <<arg, ret, schedule_vars, scheduler_vars>>

\* lines 161-164: one iteration of the while loop
FindAvailableSlotScan ==
    /\ fn = "find_available_slot"
    /\ ~ret.returned
    /\ scan_time < SlotEndTime(arg.task, arg.time_block)
    /\ IF FindConflicts(arg.task, scan_time, arg.time_block) = NoConflict
       THEN /\ ret' = Returned(Some(scan_time))
            /\ UNCHANGED scan_time
       ELSE /\ scan_time' = scan_time + ScanStep
            /\ UNCHANGED ret
    /\ UNCHANGED <<fn, arg, schedule_vars, scheduler_vars>>

\* line 166: the while condition is false, return None
FindAvailableSlotExhausted ==
    /\ fn = "find_available_slot"
    /\ ~ret.returned
    /\ scan_time >= SlotEndTime(arg.task, arg.time_block)
    /\ ret' = Returned(None)
    /\ UNCHANGED <<fn, arg, scan_time, schedule_vars, scheduler_vars>>

\* the task of a detector call
DetectorTask(duration, required_buffer, zone_type, energy_level, due_date) ==
    Task("T", duration, due_date, 1, 1,
         TaskConstraints(zone_type, energy_level, FALSE, 30, 1, required_buffer, <<>>))

\* tasks that vary what find_conflicts reads
ConflictTasks ==
    { DetectorTask(d, b, k[1], k[2], Day) :
        d \in {15, 30}, b \in {0, 15, 30},
        k \in { <<"deep", "high">>, <<"light", "low">>, <<"deep", "low">> } }

\* tasks that vary what find_available_slot reads beyond that: a due date
\* inside the block (11:00), and the 60-minute task of the tests
SlotTasks ==
    { DetectorTask(30, 15, "deep", "high", 660),
      DetectorTask(60, 15, "deep", "high", Day) }

\* the events of the block of a detector call: none; one meeting 10:00-11:00;
\* the two meetings of test_find_available_slot_scanning_behavior; the
\* meeting of test_respects_buffer_requirements; a meeting that ends off the
\* quarter hour
BlockEvents ==
    { <<>>,
      << Event("E", 600, 660, "fixed", 0) >>,
      << Event("M1", 540, 600, "fixed", 0), Event("M2", 615, 660, "fixed", 0) >>,
      << Event("X", 540, 660, "fixed", 0) >>,
      << Event("O", 545, 550, "fixed", 0) >> }

\* the blocks 09:00-13:00 of a detector call: the deep zone with and without
\* a zone buffer, the light zone with a 120-minute minimum of the tests, and
\* a plain TimeBlock
Blocks ==
    UNION { { TimeBlockZone(540, 780, "deep", "high", 30, 15, evs),
              TimeBlockZone(540, 780, "deep", "high", 30, 0, evs),
              TimeBlockZone(540, 780, "light", "high", 120, 15, evs),
              TimeBlock(540, 780, "managed", evs) } : evs \in BlockEvents }

\* proposed_start / start_from: before the block, on both sides of the
\* meeting 10:00-11:00 at the distances 0, 15 and 30 and one minute closer,
\* and near the end of the block
StartTimes ==
    { 500, 540, 541, 555, 556, 570, 571, 600, 659, 660, 674, 675, 689, 690,
      750, 765 }

DetectorArgs ==
    { [task |-> t, time_block |-> b, start |-> st] :
        t \in ConflictTasks \cup SlotTasks, b \in Blocks, st \in StartTimes }

DetectorInit ==
    /\ NoSchedule
    /\ NoScheduler
    /\ fn = "none"
    /\ arg \in DetectorArgs
    /\ scan_time = 0
    /\ ret = NotReturned

DetectorNext ==
    \/ FindConflictsCall
    \/ FindAvailableSlotEnter
    \/ FindAvailableSlotScan
    \/ FindAvailableSlotExhausted

DetectorSpec == DetectorInit /\ [][DetectorNext]_vars

-----------------------------------------------------------------------------
(* Calls of ConflictDetector.find_zone_transition_conflicts *)

\* ConflictDetector.find_zone_transition_conflicts(task, start_time, zones)
FindZoneTransitionConflictsCall ==
    /\ fn = "none"
    /\ fn' = "find_zone_transition_conflicts"
    /\ ret' = Returned(FindZoneTransitionConflicts(arg.task, arg.start, arg.zones))
    /\ UNCHANGED <<arg, scan_time, schedule_vars, scheduler_vars>>

\* the zones of test_zone_transition_conflicts, 10:00-12:00 deep/high and
\* 12:00-14:00 light/medium
Z1 == TimeBlockZone(600, 720, "deep", "high", 30, 15, <<>>)

Z2 == TimeBlockZone(720, 840, "light", "medium", 30, 15, <<>>)

\* zones that follow Z1: compatible and adjacent (as in the second part of
\* the test); with another energy level; after a gap, compatible and not;
\* overlapping Z1; and a later one
TransitionZoneLists ==
    LET Z2c == TimeBlockZone(720, 840, "deep", "high", 30, 15, <<>>)
        Z2e == TimeBlockZone(720, 840, "deep", "medium", 30, 15, <<>>)
        Z3  == TimeBlockZone(780, 900, "deep", "high", 30, 15, <<>>)
        Z3l == TimeBlockZone(780, 900, "light", "high", 30, 15, <<>>)
        Z4  == TimeBlockZone(840, 960, "deep", "high", 30, 15, <<>>)
        Z5  == TimeBlockZone(660, 780, "deep", "high", 30, 15, <<>>)
    IN  { <<>>, <<Z1>>, <<Z1, Z2>>, <<Z2, Z1>>, <<Z1, Z2c>>, <<Z2c, Z1>>,
          <<Z1, Z2e>>, <<Z1, Z3>>, <<Z3, Z1>>, <<Z1, Z3l>>, <<Z1, Z2c, Z4>>,
          <<Z4, Z2c, Z1>>, <<Z1, Z5>>, <<Z1, Z1>> }

TransitionArgs ==
    { [task |-> DetectorTask(d, 15, "deep", "high", Day), start |-> st, zones |-> zs] :
        d \in {30, 60, 180, 300},
        st \in {540, 600, 660, 690, 719, 720, 780, 850},
        zs \in TransitionZoneLists }

TransitionInit ==
    /\ NoSchedule
    /\ NoScheduler
    /\ fn = "none"
    /\ arg \in TransitionArgs
    /\ scan_time = 0
    /\ ret = NotReturned

TransitionNext == FindZoneTransitionConflictsCall

TransitionSpec == TransitionInit /\ [][TransitionNext]_vars

-----------------------------------------------------------------------------
(* Calls of Task.split *)

\* raise ValueError(message)
Raised(message) == [returned |-> FALSE, raised |-> TRUE, message |-> message]

\* Task.split(chunk_sizes) on the task arg.task
SplitCall ==
    /\ fn = "none"
    /\ fn' = "split"
    /\ ret' = IF SplitError(arg.task, arg.chunk_sizes) # NoError
              THEN Raised(SplitError(arg.task, arg.chunk_sizes))
              ELSE Returned(SplitChunks(arg.task, arg.chunk_sizes))
    /\ UNCHANGED <<arg, scan_time, schedule_vars, scheduler_vars>>

\* the parent tasks: 90 or 120 minutes, chunks of at least 30 minutes
SplitTasks ==
    { Task("P", d, Day, 1, sq,
           TaskConstraints("deep", "high", sp, 30, mx, 15, deps)) :
        d \in {90, 120}, sq \in {0, 1, 2}, sp \in BOOLEAN, mx \in {1, 2, 3},
        deps \in {<<>>, <<"D">>} }

\* another task of the same project, at another position of the project
SiblingTasks ==
    { Task("S", 60, Day, 1, sq,
           TaskConstraints("deep", "high", FALSE, 30, 1, 15, <<>>)) :
        sq \in {0, 1, 1001} }

\* chunk_sizes: every list of at most MaxChunks sizes
ChunkSizeLists ==
    UNION { [1..n -> {15, 30, 45, 60, 90}] : n \in 0..MaxChunks }

SplitArgs ==
    { a \in [task : SplitTasks, chunk_sizes : ChunkSizeLists, sibling : SiblingTasks] :
        a.sibling.sequence_number # a.task.sequence_number }

TaskSplitInit ==
    /\ NoSchedule
    /\ NoScheduler
    /\ fn = "none"
    /\ arg \in SplitArgs
    /\ scan_time = 0
    /\ ret = NotReturned

TaskSplitNext == SplitCall

TaskSplitSpec == TaskSplitInit /\ [][TaskSplitNext]_vars

-----------------------------------------------------------------------------
(* Calls of Task.validate *)

\* Task.validate() on the task arg.task, at the time arg.now
ValidateCall ==
    /\ fn = "none"
    /\ fn' = "validate"
    /\ ret' = Returned(Validate(arg.task, arg.now))
    /\ UNCHANGED <<arg, scan_time, schedule_vars, scheduler_vars>>

\* the tasks of TestTaskValidation and their neighbours: duration negative,
\* zero or positive, due before or after now, sequence_number negative or
\* not, splittable or not with min_chunk_duration * max_split_count below,
\* at and above the duration
ValidateTasks ==
    { Task("T", d, due, 1, sq,
           TaskConstraints("deep", "high", sp, mn, mx, 15, <<>>)) :
        d \in {0 - 30, 0, 60, 120}, due \in {600, 720}, sq \in {0 - 1, 0, 3},
        sp \in BOOLEAN, mn \in {30, 60}, mx \in {1, 2, 3} }

ValidateArgs == [task : ValidateTasks, now : {540, 720, 721}]

ValidateInit ==
    /\ NoSchedule
    /\ NoScheduler
    /\ fn = "none"
    /\ arg \in ValidateArgs
    /\ scan_time = 0
    /\ ret = NotReturned

ValidateNext == ValidateCall

ValidateSpec == ValidateInit /\ [][ValidateNext]_vars

-----------------------------------------------------------------------------
(* Calls of is_available and get_conflicts of a TimeBlock and a TimeBlockZone *)

\* arg.time_block.get_conflicts(start, duration), a plain TimeBlock
TimeBlockGetConflictsCall ==
    /\ fn = "none"
    /\ ~IsZone(arg.time_block)
    /\ fn' = "TimeBlock.get_conflicts"
    /\ ret' = Returned(TimeBlockGetConflicts(arg.time_block, arg.start, arg.duration))
    /\ UNCHANGED <<arg, scan_time, schedule_vars, scheduler_vars>>

\* arg.time_block.is_available(start, duration), a plain TimeBlock
TimeBlockIsAvailableCall ==
    /\ fn = "none"
    /\ ~IsZone(arg.time_block)
    /\ fn' = "TimeBlock.is_available"
    /\ ret' = Returned(TimeBlockIsAvailable(arg.time_block, arg.start, arg.duration))
    /\ UNCHANGED <<arg, scan_time, schedule_vars, scheduler_vars>>

\* arg.time_block.get_conflicts(start, duration), a TimeBlockZone
ZoneGetConflictsCall ==
    /\ fn = "none"
    /\ IsZone(arg.time_block)
    /\ fn' = "TimeBlockZone.get_conflicts"
    /\ ret' = Returned(ZoneGetConflicts(arg.time_block, arg.start, arg.duration))
    /\ UNCHANGED <<arg, scan_time, schedule_vars, scheduler_vars>>

\* arg.time_block.is_available(start, duration), a TimeBlockZone
ZoneIsAvailableCall ==
    /\ fn = "none"
    /\ IsZone(arg.time_block)
    /\ fn' = "TimeBlockZone.is_available"
    /\ ret' = Returned(ZoneIsAvailable(arg.time_block, arg.start, arg.duration))
    /\ UNCHANGED <<arg, scan_time, schedule_vars, scheduler_vars>>

\* the events of a block: as in the calls of the detector, and three events
\* of which the middle one lies between the two others
TimeBlockEvents ==
    BlockEvents \cup
      { << Event("A", 540, 570, "fixed", 0), Event("B", 600, 660, "managed", 0),
           Event("C", 690, 720, "fixed", 0) >> }

\* the blocks 09:00-13:00: plain TimeBlocks, and zones with a buffer of 15
\* and of 0 minutes, with a minimum duration of 30 and 120 minutes
TimeBlocks ==
    UNION { { TimeBlock(540, 780, "zone", evs),
              TimeBlockZone(540, 780, "deep", "high", 30, 15, evs),
              TimeBlockZone(540, 780, "deep", "high", 30, 0, evs),
              TimeBlockZone(540, 780, "deep", "high", 120, 15, evs) } :
            evs \in TimeBlockEvents }

\* the durations asked for
AskedDurations == {15, 30, 60, 120, 240}

TimeBlockArgs ==
    [time_block : TimeBlocks, start : StartTimes, duration : AskedDurations]

TimeBlockInit ==
    /\ NoSchedule
    /\ NoScheduler
    /\ fn = "none"
    /\ arg \in TimeBlockArgs
    /\ scan_time = 0
    /\ ret = NotReturned

TimeBlockNext ==
    \/ TimeBlockGetConflictsCall
    \/ TimeBlockIsAvailableCall
    \/ ZoneGetConflictsCall
    \/ ZoneIsAvailableCall

TimeBlockSpec == TimeBlockInit /\ [][TimeBlockNext]_vars

-----------------------------------------------------------------------------
(* scheduler.py: the Scheduler and its collaborators.  The calendar source
   is the collaborator of the CalendarRepository protocol: get_events gives
   the events of the window, create_event adds the event, and
   remove_managed_events removes every MANAGED event. *)

\* the longest sequence of Scheduler calls
MaxCalls == 2

\* datetime.now().replace(hour=9, minute=0), the same for every call
PlanningStart == 540

\* CalendarRepository.get_events(start, end)
GetEvents(cal, start, end) ==
    LET InWindow(e) == e.start < end /\ e.end > start
    IN  SelectSeq(cal, InWindow)

\* mutant: every event of the calendar is removed
RemoveManaged_All(cal) == SelectSeq(cal, LAMBDA e : FALSE)

\* CalendarRepository.remove_managed_events()
RemoveManaged(cal) == SelectSeq(cal, LAMBDA e : e.type # "managed")

\* mutant: the loop passes the first event every time
CreatedEvent_First(scheduled_events, n) == scheduled_events[1]

\* scheduler.py lines 94-95: the event of the n-th iteration of the loop
CreatedEvent(scheduled_events, n) == scheduled_events[n]

\* scheduler.py lines 77-85 and 124-132: the default zone
DefaultZone(evs) ==
    TimeBlockZone(PlanningStart, PlanningStart + 4 * 60, "deep", "high", 30, 15, evs)

\* mutant: the strategy is also given the MANAGED events of the calendar
SeenByStrategy_Calendar(fixed_events, cal) ==
    fixed_events \o SelectSeq(cal, LAMBDA e : e.type = "managed")

\* scheduler.py line 135: the existing_events handed to the strategy by
\* reschedule; cal is the calendar at the time of the call
SeenByStrategy(fixed_events, cal) == fixed_events

\* a Scheduler method can be called
CanCall == spc \in {"idle", "returned", "raised"} /\ ncalls < MaxCalls

\* the strategy is called: the state of SequenceBasedStrategy.schedule at
\* its first line
StrategyCalled(ts, zs, evs) ==
    /\ tasks' = ts
    /\ zones' = zs
    /\ existing_events' = evs
    /\ all_zones' = <<>>
    /\ events' = <<>>
    /\ scheduled_task_ids' = {}
    /\ remaining_tasks' = <<>>
    /\ pc' = "start"
    /\ task' = NoTask
    /\ remaining_duration' = 0
    /\ chunk_count' = 0
    /\ task_events' = <<>>
    /\ current_events' = <<>>
    /\ result' = <<>>
    /\ attempts' = <<>>
    /\ placed' = <<>>
    /\ outcome' = "running"

\* a Scheduler method is entered
Entered(name, a) ==
    /\ CanCall
    /\ fn' = name
    /\ arg' = a
    /\ prev' = [fn |-> fn, arg |-> arg, ret |-> ret, calendar |-> calendar]
    /\ ncalls' = ncalls + 1
    /\ written' = 0
    /\ UNCHANGED <<repo_tasks, scan_time>>

\* schedule_tasks, lines 65-67: the task source has no task
ScheduleTasksEmpty ==
    /\ Entered("schedule_tasks", [planning_horizon |-> 7])
    /\ repo_tasks = <<>>
    /\ calls' = << [op |-> "get_tasks"] >>
    /\ ret' = Returned(<<>>)
    /\ spc' = "returned"
    /\ UNCHANGED <<calendar, schedule_vars>>

\* schedule_tasks, lines 65-88: up to the call of the strategy
ScheduleTasksEnter ==
    /\ Entered("schedule_tasks", [planning_horizon |-> 7])
    /\ repo_tasks # <<>>
    /\ calls' = << [op |-> "get_tasks"], [op |-> "get_events"] >>
    /\ StrategyCalled(repo_tasks, << DefaultZone(<<>>) >>,
                      GetEvents(calendar, PlanningStart, PlanningStart + 7 * Day))
    /\ ret' = NotReturned
    /\ spc' = "strategy"
    /\ UNCHANGED calendar

\* schedule_tasks, line 91, once the strategy has returned
RemoveManagedEvents ==
    /\ fn = "schedule_tasks"
    /\ spc = "strategy"
    /\ pc = "done"
    /\ calendar' = RemoveManaged(calendar)
    /\ calls' = Append(calls, [op |-> "remove_managed_events"])
    /\ spc' = "write"
    /\ UNCHANGED <<call_vars, schedule_vars, repo_tasks, written, ncalls, prev>>

\* schedule_tasks, lines 94-95: one iteration of the loop
CreateEvent ==
    /\ spc = "write"
    /\ written < Len(result)
    /\ calendar' = Append(calendar, CreatedEvent(result, written + 1))
    /\ calls' = Append(calls, [op |-> "create_event",
                                event |-> CreatedEvent(result, written + 1)])
    /\ written' = written + 1
    /\ UNCHANGED <<call_vars, schedule_vars, repo_tasks, spc, ncalls, prev>>

\* schedule_tasks, line 95: create_event raises and the exception leaves
\* schedule_tasks
CreateEventRaises ==
    /\ spc = "write"
    /\ written < Len(result)
    /\ calls' = Append(calls, [op |-> "create_event",
                                event |-> CreatedEvent(result, written + 1)])
    /\ ret' = Raised("create_event failed")
    /\ spc' = "raised"
    /\ UNCHANGED <<fn, arg, scan_time, schedule_vars, repo_tasks, calendar,
                   written, ncalls, prev>>

\* schedule_tasks, line 97
ScheduleTasksReturn ==
    /\ spc = "write"
    /\ written = Len(result)
    /\ ret' = Returned(result)
    /\ spc' = "returned"
    /\ UNCHANGED <<fn, arg, scan_time, schedule_vars, repo_tasks, calendar,
                   calls, written, ncalls, prev>>

\* the fixed_events argument of reschedule: not given, or a list
FixedEventArgs ==
    { None, Some(<<>>), Some(<< Event("F1", 570, 600, "fixed", 0) >>) }

\* reschedule, lines 112-135: up to the call of the strategy.  Line 121
\* names TimeBlockType, which scheduler.py does not import: the filter can
\* be evaluated only for an empty list of events
RescheduleEnter ==
    \E fx \in FixedEventArgs :
        LET fetched == GetEvents(RemoveManaged(calendar), PlanningStart,
                                 PlanningStart + 7 * Day)
            fixed_events == IF fx = None THEN <<>> ELSE fx.value
        IN  /\ Entered("reschedule", [tasks |-> repo_tasks,
                                      affected_task_ids |-> None,
                                      fixed_events |-> fx])
            /\ fx = None => fetched = <<>>
            /\ calendar' = RemoveManaged(calendar)
            /\ calls' = IF fx = None
                        THEN << [op |-> "remove_managed_events"],
                                [op |-> "get_events"] >>
                        ELSE << [op |-> "remove_managed_events"] >>
            /\ StrategyCalled(repo_tasks, << DefaultZone(fixed_events) >>,
                              SeenByStrategy(fixed_events, calendar))
            /\ ret' = NotReturned
            /\ spc' = "strategy"

\* reschedule, lines 112-121 without fixed_events, the calendar has an
\* event in the window: the filter of line 121 raises NameError
RescheduleNameError ==
    /\ Entered("reschedule", [tasks |-> repo_tasks, affected_task_ids |-> None,
                              fixed_events |-> None])
    /\ GetEvents(RemoveManaged(calendar), PlanningStart,
                 PlanningStart + 7 * Day) # <<>>
    /\ calendar' = RemoveManaged(calendar)
    /\ calls' = << [op |-> "remove_managed_events"], [op |-> "get_events"] >>
    /\ ret' = Raised("name 'TimeBlockType' is not defined")
    /\ spc' = "raised"
    /\ UNCHANGED schedule_vars

\* reschedule, line 135, once the strategy has returned
RescheduleReturn ==
    /\ fn = "reschedule"
    /\ spc = "strategy"
    /\ pc = "done"
    /\ ret' = Returned(result)
    /\ spc' = "returned"
    /\ UNCHANGED <<fn, arg, scan_time, schedule_vars, repo_tasks, calendar,
                   calls, written, ncalls, prev>>

\* the lists of the task source: empty; one task; a task and one that
\* depends on it; a task split in three chunks; a task and one for which
\* there is no zone; a task whose dependency does not exist
SchedulerTaskLists ==
    LET single == <<"deep", "high", FALSE, 60, 30, 1, 15>>
        light  == <<"light", "high", FALSE, 60, 30, 1, 0>>
        split  == <<"deep", "high", TRUE, 250, 30, 3, 0>>
    IN  { <<>>,
          << MakeTask(1, 1, single, "none", <<Day, 1, 1>>) >>,
          << MakeTask(1, 2, single, "none", <<Day, 1, 1>>),
             MakeTask(2, 2, single, "next", <<Day, 1, 2>>) >>,
          << MakeTask(1, 1, split, "none", <<Day, 1, 1>>) >>,
          << MakeTask(1, 2, single, "none", <<Day, 1, 1>>),
             MakeTask(2, 2, light, "none", <<Day, 1, 2>>) >>,
          << MakeTask(1, 1, single, "both", <<Day, 1, 1>>) >> }

\* the calendars at the start: empty; a FIXED event; a MANAGED event of an
\* earlier pass and a FIXED event; a FIXED event and a MANAGED event after
\* the planning window
Calendars ==
    { <<>>,
      << F1 >>,
      << M0, F1 >>,
      << F1, Event("M9", 8 * Day + 540, 8 * Day + 600, "managed", 0) >> }

SchedulerInit ==
    /\ NoSchedule
    /\ NoCall
    /\ repo_tasks \in SchedulerTaskLists
    /\ calendar \in Calendars
    /\ calls = <<>>
    /\ spc = "idle"
    /\ written = 0
    /\ ncalls = 0
    /\ prev = [none |-> TRUE]

SchedulerNext ==
    \/ ScheduleTasksEmpty
    \/ ScheduleTasksEnter
    \/ RemoveManagedEvents
    \/ CreateEvent
    \/ CreateEventRaises
    \/ ScheduleTasksReturn
    \/ RescheduleEnter
    \/ RescheduleNameError
    \/ RescheduleReturn
    \/ Start
    \/ LoopExit
    \/ Deadlock
    \/ AttemptSingle
    \/ BeginSplit
    \/ SplitChunk
    \/ SplitFinish

SchedulerSpec == SchedulerInit /\ [][SchedulerNext]_vars

-----------------------------------------------------------------------------
(* Calls of SplitStrategy.calculate_optimal_split *)

\* -(-a // b) of the code, for b > 0: a / b rounded up
CeilDiv(a, b) == 0 - ((0 - a) \div b)

\* the quotient num / den of two positive integers capped at 1.0, as a fraction
CappedRatio(num, den) ==
    IF num >= den THEN [num |-> 1, den |-> 1] ELSE [num |-> num, den |-> den]

SplitMetrics(optimal_chunk_count, chunk_duration, total_buffer_time, zone_utilization) ==
    [optimal_chunk_count |-> optimal_chunk_count,
     chunk_duration      |-> chunk_duration,
     total_buffer_time   |-> total_buffer_time,
     zone_utilization    |-> zone_utilization]

\* calculate_optimal_split with the chunk duration rounded down
CalculateOptimalSplit_RoundDown(total_duration, available_zones, min_chunk_duration, max_splits) ==
    IF available_zones = <<>> \/ total_duration <= 0
    THEN Returned(None)
    ELSE LET optimal_chunks == Min(Max(1, CeilDiv(total_duration, 120)), max_splits + 1)
         IN  IF optimal_chunks = 0
             THEN Raised("integer division or modulo by zero")
             ELSE LET chunk_duration == total_duration \div optimal_chunks
                      total_buffer == (optimal_chunks - 1) * 15 + optimal_chunks * (15 * 2)
                      usable_zone_capacity == optimal_chunks * chunk_duration
                  IN  Returned(Some(SplitMetrics(optimal_chunks, chunk_duration, total_buffer,
                          IF usable_zone_capacity > 0
                          THEN CappedRatio(total_duration, usable_zone_capacity)
                          ELSE [num |-> 0, den |-> 1])))

\* SplitStrategy.calculate_optimal_split: what the call returns or raises
CalculateOptimalSplit(total_duration, available_zones, min_chunk_duration, max_splits) ==
    IF available_zones = <<>> \/ total_duration <= 0
    THEN Returned(None)
    ELSE LET optimal_chunks == Min(Max(1, CeilDiv(total_duration, 120)), max_splits + 1)
         IN  IF optimal_chunks = 0
             THEN Raised("integer division or modulo by zero")
             ELSE LET chunk_duration == CeilDiv(total_duration, optimal_chunks)
                      total_buffer == (optimal_chunks - 1) * 15 + optimal_chunks * (15 * 2)
                      usable_zone_capacity == optimal_chunks * chunk_duration
                  IN  Returned(Some(SplitMetrics(optimal_chunks, chunk_duration, total_buffer,
                          IF usable_zone_capacity > 0
                          THEN CappedRatio(total_duration, usable_zone_capacity)
                          ELSE [num |-> 0, den |-> 1])))

\* SplitStrategy().calculate_optimal_split(**arg)
CalculateOptimalSplitCall ==
    /\ fn = "none"
    /\ fn' = "calculate_optimal_split"
    /\ ret' = CalculateOptimalSplit(arg.total_duration, arg.available_zones,
                                    arg.min_chunk_duration, arg.max_splits)
    /\ UNCHANGED <<arg, scan_time, schedule_vars, scheduler_vars>>

\* the durations of test_split_strategy.py (240, 360) and their neighbours
\* around the preferred chunk size of 120, no zones, one zone and two zones,
\* and the split counts from one below zero to the tests' 4
OptimalSplitArgs ==
    [total_duration     : {0 - 30, 0, 1, 60, 119, 120, 121, 130, 240, 241, 360, 480},
     available_zones    : {<<>>, <<ZDeep>>, <<ZDeep, ZLight>>},
     min_chunk_duration : {30, 60, 100},
     max_splits         : (0 - 1)..4]

OptimalSplitInit ==
    /\ NoSchedule
    /\ NoScheduler
    /\ fn = "none"
    /\ arg \in OptimalSplitArgs
    /\ scan_time = 0
    /\ ret = NotReturned

OptimalSplitNext == CalculateOptimalSplitCall

OptimalSplitSpec == OptimalSplitInit /\ [][OptimalSplitNext]_vars

-----------------------------------------------------------------------------
(* Vocabulary of the claims *)

Overlap(a, b) == a.start < b.end /\ a.end > b.start

\* the task of the input with this id (ids are unique in the inputs)
TaskById(id) == CHOOSE t \in Range(tasks) : t.id = id

PlacedIds == {placed[i].task : i \in 1..Len(placed)}

\* the events created for the task with this id, a sequence
EventsOf(id) == placed[CHOOSE i \in 1..Len(placed) : placed[i].task = id].evs

\* every event created by the call so far, as [task, event] pairs
Created ==
    UNION { { [task |-> placed[i].task, event |-> placed[i].evs[k]] :
                k \in 1..Len(placed[i].evs) } : i \in 1..Len(placed) }

RECURSIVE Flatten(_)
Flatten(ps) == IF ps = <<>> THEN <<>> ELSE Head(ps).evs \o Flatten(Tail(ps))

RECURSIVE SumDurations(_)
SumDurations(evs) ==
    IF evs = <<>> THEN 0
    ELSE (Head(evs).end - Head(evs).start) + SumDurations(Tail(evs))

IsFixed(e) == e.type = "fixed"

-----------------------------------------------------------------------------
(* C1: no MANAGED event created by schedule (single block or chunk) overlaps
   in time a FIXED event of existing_events. *)
C1_NoOverlapWithFixed ==
    \A c \in Created : \A f \in Range(existing_events) :
        IsFixed(f) => ~Overlap(c.event, f)

(* C2: for every placed task T and every dependency D of T, every event of D
   ends at or before the start of every event of T. *)
C2_DependencyOrder ==
    \A c \in Created : \A dep \in Range(TaskById(c.task).constraints.dependencies) :
        \A d \in Created : d.task = dep => d.event.end <= c.event.start

\* A then B are chronologically adjacent among the created events
Adjacent(a, b) ==
    /\ a # b
    /\ a.event.start <= b.event.start
    /\ ~\E c \in Created : c # a /\ c # b
            /\ a.event.start <= c.event.start /\ c.event.start <= b.event.start

(* C3: in the returned schedule, for any two chronologically adjacent MANAGED
   events A then B, the gap B.start - A.end is at least
   max(A.buffer_required, required_buffer of B's task). *)
C3_BufferBetweenAdjacent ==
    pc = "done" =>
        \A a \in Created : \A b \in Created :
            Adjacent(a, b) =>
                b.event.start - a.event.end >=
                    Max(a.event.buffer_required,
                        TaskById(b.task).constraints.required_buffer)

(* C4: the MANAGED events returned by one call are pairwise non-overlapping
   in time. *)
C4_ManagedDisjoint ==
    pc = "done" =>
        \A i \in 1..Len(result) : \A j \in 1..Len(result) :
            i # j => ~Overlap(result[i], result[j])

(* C5: every MANAGED event created for a task lies entirely inside one
   projected zone whose zone_type and energy_level both equal the task's
   constraints. *)
C5_InsideMatchingZone ==
    \A c \in Created :
        \E z \in Range(all_zones) :
            /\ z.start <= c.event.start
            /\ c.event.end <= z.end
            /\ z.zone_type = TaskById(c.task).constraints.zone_type
            /\ z.energy_level = TaskById(c.task).constraints.energy_level

-----------------------------------------------------------------------------
\* one step of the call keeps the loops of schedule and of split placement
\* bounded: a pass through the main loop body ends the call or comes back
\* with exactly one task less, and a chunk iteration raises chunk_count
LoopStep ==
    /\ (pc \in {"loop", "split"} /\ pc' = "loop") =>
          /\ Len(remaining_tasks') = Len(remaining_tasks) - 1
          /\ Range(remaining_tasks') \subseteq Range(remaining_tasks)
    /\ (pc = "loop" /\ pc' = "split") =>
          /\ remaining_tasks' = remaining_tasks
          /\ chunk_count' = 0
    /\ (pc = "split" /\ pc' = "split") =>
          /\ remaining_tasks' = remaining_tasks
          /\ chunk_count' = chunk_count + 1
          /\ chunk_count' <= task.constraints.max_split_count
    /\ pc = "done" => pc' = "done"

\* the largest max_split_count of the input
MaxSplits ==
    LET counts == {0} \cup {tasks[i].constraints.max_split_count : i \in 1..Len(tasks)}
    IN  CHOOSE m \in counts : \A c \in counts : c <= m

\* a bound on the number of steps the call can still take
StepsLeft ==
    CASE pc = "done"  -> 0
      [] pc = "start" -> 2 + Len(tasks) * (MaxSplits + 2)
      [] pc = "loop"  -> 1 + Len(remaining_tasks) * (MaxSplits + 2)
      [] pc = "split" -> 2 + (Len(remaining_tasks) - 1) * (MaxSplits + 2)
                           + (task.constraints.max_split_count - chunk_count)

(* C6: schedule terminates for every finite input, including cyclic
   dependency graphs, dependencies on unknown ids and tasks that fit no zone:
   every iteration of the main loop either removes exactly one task from
   remaining_tasks or leaves the loop, and the split loop runs at most
   max_split_count times.  (Every step of the call lowers the bound
   StepsLeft, which is never negative.) *)
C6_Terminates ==
    /\ [][LoopStep /\ StepsLeft' < StepsLeft]_vars
    /\ [](StepsLeft >= 0)

\* a dependency cycle, an unknown dependency id and a task that fits no zone
\* in one input, and the call has returned
C6_Witness ==
    /\ pc = "done"
    /\ Len(tasks) = 2
    /\ tasks[1].constraints.dependencies = <<"B", "X">>
    /\ tasks[2].constraints.dependencies = <<"A">>
    /\ tasks[2].duration > 240

\* no remaining task has all of its dependency ids in scheduled_task_ids
NoneReady ==
    \A t \in Range(remaining_tasks) :
        \E k \in 1..Len(t.constraints.dependencies) :
            t.constraints.dependencies[k] \notin scheduled_task_ids

\* the events of existing_events left out, the list holds exactly the events
\* placed so far, in placement order
ReturnsPlaced(res) ==
    LET IsNew(e) == e \notin Range(existing_events)
    IN  SelectSeq(res, IsNew) = Flatten(placed)

TwoCycle ==
    /\ Len(tasks) = 2
    /\ tasks[1].constraints.dependencies = <<tasks[2].id>>
    /\ tasks[2].constraints.dependencies = <<tasks[1].id>>

(* C7: if at some step no remaining task has all of its dependency ids in
   scheduled_task_ids, schedule stops without raising and returns the events
   placed so far; two tasks with circular dependencies yield zero placed
   tasks. *)
C7_DeadlockStops ==
    /\ [][(pc = "loop" /\ remaining_tasks # <<>> /\ NoneReady) =>
            /\ pc' = "done"
            /\ outcome' = "deadlock"
            /\ placed' = placed
            /\ ReturnsPlaced(result')]_vars
    /\ []((pc = "done" /\ zones # <<>> /\ TwoCycle) =>
            /\ outcome = "deadlock"
            /\ placed = <<>>
            /\ result = ManagedOnly(existing_events))

\* a deadlock after a first task was placed: its event is returned
C7_Witness ==
    /\ pc = "done"
    /\ outcome = "deadlock"
    /\ Len(placed) = 1
    /\ remaining_tasks # <<>>
    /\ NoneReady
    /\ result = placed[1].evs

(* C8: fail-fast: when the task selected at some step cannot be placed,
   schedule stops; no task that would have been selected later is placed, and
   the result is exactly the events of the tasks placed before the failure
   (a prefix of the selection order). *)
C8_FailFastPrefix ==
    (pc = "done" /\ outcome = "blocked") =>
        /\ Len(attempts) = Len(placed) + 1
        /\ \A i \in 1..Len(placed) : placed[i].task = attempts[i]
        /\ attempts[Len(attempts)] \notin PlacedIds
        /\ result = Flatten(placed)

\* lexicographic order of the key (due_date, project_id, sequence_number)
KeyLeq(a, b) ==
    \/ a.due_date < b.due_date
    \/ /\ a.due_date = b.due_date
       /\ \/ a.project_id < b.project_id
          \/ /\ a.project_id = b.project_id
             /\ a.sequence_number <= b.sequence_number

Ready(t) ==
    \A k \in 1..Len(t.constraints.dependencies) :
        t.constraints.dependencies[k] \in scheduled_task_ids

\* the step attempts a task: it is a least one, under the key, of the
\* remaining tasks whose dependencies are all scheduled
AttemptsLeast ==
    attempts' # attempts =>
        /\ Len(attempts') = Len(attempts) + 1
        /\ SubSeq(attempts', 1, Len(attempts)) = attempts
        /\ \E t \in Range(remaining_tasks) :
              /\ t.id = attempts'[Len(attempts')]
              /\ Ready(t)
              /\ \A u \in Range(remaining_tasks) : Ready(u) => KeyLeq(t, u)

\* every event of task a stands before every event of task b in the result
ComesOutBefore(a, b) ==
    \A i \in 1..Len(result) : \A j \in 1..Len(result) :
        (result[i] \in Range(EventsOf(a.id)) /\ result[j] \in Range(EventsOf(b.id)))
            => i < j

\* newly created events stand in the returned list in attempt order
CreatedInAttemptOrder ==
    /\ ReturnsPlaced(result)
    /\ \A i \in 1..Len(placed) : placed[i].task = attempts[i]

\* tasks of one project with equal due dates and no dependencies come out in
\* ascending sequence_number
SequenceOrderKept ==
    \A a \in Range(tasks) : \A b \in Range(tasks) :
        ( /\ a.id \in PlacedIds /\ b.id \in PlacedIds
          /\ a.project_id = b.project_id /\ a.due_date = b.due_date
          /\ a.constraints.dependencies = <<>> /\ b.constraints.dependencies = <<>>
          /\ a.sequence_number < b.sequence_number )
        => ComesOutBefore(a, b)

(* C9 as stated: ... and a task with an earlier due date comes out before any
   dependency-free task with a later one. *)
C9_AsStated ==
    /\ [][AttemptsLeast]_vars
    /\ [](pc = "done" /\ outcome # "nozones" =>
            /\ CreatedInAttemptOrder
            /\ SequenceOrderKept
            /\ \A a \in Range(tasks) : \A b \in Range(tasks) :
                  ( /\ a.id \in PlacedIds /\ b.id \in PlacedIds
                    /\ a.due_date < b.due_date
                    /\ b.constraints.dependencies = <<>> )
                  => ComesOutBefore(a, b))

(* C9: at every step the task attempted next is the minimum under the key
   (due_date, project_id, sequence_number) among the remaining tasks whose
   dependencies are all already scheduled, and newly created events appear in
   the returned list in that attempt order; hence tasks of one project with
   equal due dates and no dependencies come out in ascending sequence_number,
   and a dependency-free task with an earlier due date comes out before any
   dependency-free task with a later one. *)
C9_SelectionOrder ==
    /\ [][AttemptsLeast]_vars
    /\ [](pc = "done" /\ outcome # "nozones" =>
            /\ CreatedInAttemptOrder
            /\ SequenceOrderKept
            /\ \A a \in Range(tasks) : \A b \in Range(tasks) :
                  ( /\ a.id \in PlacedIds /\ b.id \in PlacedIds
                    /\ a.due_date < b.due_date
                    /\ a.constraints.dependencies = <<>>
                    /\ b.constraints.dependencies = <<>> )
                  => ComesOutBefore(a, b))

\* two placed tasks of one project and one due date, listed against their
\* sequence numbers, and a placed task with a later due date
C9_Witness ==
    /\ pc = "done"
    /\ Len(placed) = 2
    /\ Len(tasks) = 2
    /\ tasks[1].id = placed[2].task
    /\ tasks[1].project_id = tasks[2].project_id
    /\ tasks[1].due_date = tasks[2].due_date
    /\ tasks[1].sequence_number > tasks[2].sequence_number
    /\ tasks[1].constraints.dependencies = <<>>
    /\ tasks[2].constraints.dependencies = <<>>

(* C10: when split placement of a splittable task succeeds, the durations of
   the committed chunk events sum exactly to task.duration, there are at most
   max_split_count chunks, and their ids are {taskId}_chunk_1 ..
   {taskId}_chunk_N without gaps or repeats. *)
C10_SplitConservation ==
    \A i \in 1..Len(placed) :
        LET t == TaskById(placed[i].task)
            evs == placed[i].evs
        IN  t.constraints.is_splittable =>
              /\ SumDurations(evs) = t.duration
              /\ Len(evs) <= t.constraints.max_split_count
              /\ \A k \in 1..Len(evs) :
                    evs[k].id = t.id \o "_chunk_" \o ToString(k)
              /\ Range(evs) \subseteq Range(events)

\* a split task committed in two chunks of different length
C10_Witness ==
    \E i \in 1..Len(placed) :
        /\ TaskById(placed[i].task).constraints.is_splittable
        /\ Len(placed[i].evs) = 2
        /\ placed[i].evs[1].end - placed[i].evs[1].start = 60
        /\ placed[i].evs[2].end - placed[i].evs[2].start = 30

-----------------------------------------------------------------------------
\* the length in minutes of an event
Duration(e) == e.end - e.start

(* C11: every chunk event committed by split placement lasts at least the
   task's min_chunk_duration, the last chunk, whose duration is the remainder
   min(remaining_duration, optimal_chunk_size), included. *)
C11_ChunkFloor ==
    \A i \in 1..Len(placed) :
        LET t == TaskById(placed[i].task)
        IN  t.constraints.is_splittable =>
              \A k \in 1..Len(placed[i].evs) :
                  Duration(placed[i].evs[k]) >= t.constraints.min_chunk_duration

\* the ids that split placement gives to the chunks of the tasks of the input
ChunkIds ==
    {ChunkId(tasks[i].id, k) : i \in 1..Len(tasks), k \in 1..MaxSplits}

\* the task whose placement failed
FailedTask == TaskById(attempts[Len(attempts)])

(* C12: split placement is all-or-nothing: if it fails (a chunk finds no slot
   in any zone, or max_split_count chunks are placed while duration remains),
   the accumulated events list and scheduled_task_ids are exactly what they
   were before the attempt (the existing events followed by the events of
   the tasks placed before, and the ids of those tasks), so no chunk of that
   task appears in the result. *)
C12_AllOrNothing ==
    /\ pc = "split" =>
          /\ events = existing_events \o Flatten(placed)
          /\ scheduled_task_ids = PlacedIds
    /\ (pc = "done" /\ outcome = "blocked" /\ FailedTask.constraints.is_splittable) =>
          /\ events = existing_events \o Flatten(placed)
          /\ scheduled_task_ids = PlacedIds
          /\ FailedTask.id \notin PlacedIds
          /\ \A e \in Range(events) \cup Range(result) :
                \A k \in 1..FailedTask.constraints.max_split_count :
                    e.id # ChunkId(FailedTask.id, k)

\* a split that found no slot for a chunk after it had placed chunks of the
\* task (fourteen chunks of 120 minutes fill the seven days), after another
\* task was placed
C12_Witness ==
    /\ pc = "done"
    /\ outcome = "blocked"
    /\ FailedTask.constraints.is_splittable
    /\ FailedTask.duration = 1800
    /\ Len(placed) = 1
    /\ Len(placed[1].evs) = 3

\* the task names the id of a chunk among its dependencies
HasChunkDependency(t) == Range(t.constraints.dependencies) \cap ChunkIds # {}

(* C13: after a successful split placement the only id added to
   scheduled_task_ids is the parent task id, never a chunk id: a task
   depending on the parent id becomes available only after all chunks of
   the parent are committed, and a task whose dependency is a chunk id
   never becomes available. *)
C13_ParentIdOnly ==
    /\ scheduled_task_ids \cap ChunkIds = {}
    /\ scheduled_task_ids = PlacedIds
    /\ pc = "split" => task.id \notin scheduled_task_ids
    /\ \A t \in Range(tasks) :
          /\ HasChunkDependency(t) => (~Ready(t) /\ t.id \notin Range(attempts))
          /\ \A p \in Range(tasks) :
                ( /\ p.constraints.is_splittable
                  /\ p.id \in Range(t.constraints.dependencies)
                  /\ (Ready(t) \/ t.id \in Range(attempts)) )
                => /\ p.id \in PlacedIds
                   /\ SumDurations(EventsOf(p.id)) = p.duration
                   /\ Range(EventsOf(p.id)) \subseteq Range(events)

\* a split task is committed in three chunks, and the task that depends on
\* the id of its first chunk is left over when the call returns
C13_Witness ==
    /\ pc = "done"
    /\ outcome = "deadlock"
    /\ Len(placed) = 1
    /\ Len(placed[1].evs) = 3
    /\ Len(remaining_tasks) = 1
    /\ remaining_tasks[1].constraints.dependencies = <<placed[1].evs[1].id>>

-----------------------------------------------------------------------------
(* Vocabulary of the claims about ConflictDetector *)

BlockEventsOf == Range(arg.time_block.events)

\* the proposed interval P = [proposed_start, proposed_start + duration)
PStart == arg.start

PEnd == arg.start + arg.task.duration

\* max(task.required_buffer, zone.buffer_required), 0 for a plain TimeBlock
BufferOf ==
    LET zone_buffer == IF "buffer_required" \in DOMAIN arg.time_block
                       THEN arg.time_block.buffer_required ELSE 0
    IN  IF arg.task.constraints.required_buffer >= zone_buffer
        THEN arg.task.constraints.required_buffer ELSE zone_buffer

\* P and E truly overlap
Overlaps(e) == e.start < PEnd /\ PStart < e.end

\* the minutes between P and an event that does not overlap it, on either side
Gap(e) == IF e.end <= PStart THEN PStart - e.end ELSE e.start - PEnd

\* the event is nearer to P than the buffer, without overlapping it
Near(e) == ~Overlaps(e) /\ Gap(e) < BufferOf

DirectApplies == \E e \in BlockEventsOf : Overlaps(e)

BufferApplies == \E e \in BlockEventsOf : Near(e)

BlockIsZone == "zone_type" \in DOMAIN arg.time_block

ZoneTypeApplies ==
    BlockIsZone /\ arg.time_block.zone_type # arg.task.constraints.zone_type

EnergyApplies ==
    BlockIsZone /\ arg.time_block.energy_level # arg.task.constraints.energy_level

MinDurationApplies ==
    BlockIsZone /\ arg.task.duration < arg.time_block.min_duration

FindConflictsReturned == fn = "find_conflicts" /\ ret.returned

(* C14: find_conflicts returns the outcome of the first applicable check in
   the fixed order: direct overlap, buffer violation, then (only when the
   block is a TimeBlockZone) zone_type mismatch, energy_level mismatch,
   task.duration < zone.min_duration; it returns None exactly when none
   applies, and for a plain TimeBlock the three zone checks are never
   applied. *)
C14_FirstApplicableCheck ==
    FindConflictsReturned =>
        LET m == ret.value.message
        IN  /\ m = ( IF DirectApplies THEN "Time slot has conflicting events"
                     ELSE IF BufferApplies
                     THEN "Buffer requirement of " \o ToString(BufferOf)
                              \o " minutes not met"
                     ELSE IF ZoneTypeApplies
                     THEN "Task requires " \o arg.task.constraints.zone_type
                              \o " zone"
                     ELSE IF EnergyApplies
                     THEN "Task requires " \o arg.task.constraints.energy_level
                              \o " energy level"
                     ELSE IF MinDurationApplies
                     THEN "Task duration below zone minimum ("
                              \o ToString(arg.time_block.min_duration) \o " min)"
                     ELSE "None" )
            /\ (ret.value = NoConflict) <=>
                  ~( DirectApplies \/ BufferApplies \/ ZoneTypeApplies
                     \/ EnergyApplies \/ MinDurationApplies )
            /\ (~BlockIsZone /\ ~DirectApplies /\ ~BufferApplies) =>
                  ret.value = NoConflict

\* a deep task of 15 minutes in the light zone with a 120-minute minimum and
\* no event near: the zone_type mismatch is reported, not the duration
C14_Witness ==
    /\ FindConflictsReturned
    /\ ZoneTypeApplies /\ EnergyApplies /\ MinDurationApplies
    /\ ~DirectApplies /\ ~BufferApplies
    /\ arg.task.duration = 15
    /\ arg.time_block.min_duration = 120
    /\ ret.value.message = "Task requires deep zone"

\* a plain TimeBlock takes a 15-minute low-energy task without a conflict
C14_PlainBlockReached ==
    /\ FindConflictsReturned
    /\ ~BlockIsZone
    /\ arg.task.duration = 15
    /\ ret.value = NoConflict

(* C15: conflict symmetry: for any event E of the block and proposed interval
   P, find_conflicts flags a conflict iff P and E truly overlap or the gap
   between them is smaller than max(task.required_buffer,
   zone.buffer_required) minutes; an event exactly that many minutes before
   or after P is not a conflict, and the rule is the same on both sides. *)
C15_ConflictSymmetry ==
    FindConflictsReturned =>
        /\ (ret.value.conflicting_events # <<>>) <=>
              \E e \in BlockEventsOf : Overlaps(e) \/ Near(e)
        /\ \A e \in Range(ret.value.conflicting_events) :
              e \in BlockEventsOf /\ (Overlaps(e) \/ Near(e))
        /\ \A e \in BlockEventsOf :
              (~Overlaps(e) /\ Gap(e) >= BufferOf) =>
                  e \notin Range(ret.value.conflicting_events)
        /\ (\A e \in BlockEventsOf : ~Overlaps(e) /\ Gap(e) >= BufferOf) =>
              ret.value.message \notin
                  { "Time slot has conflicting events",
                    "Buffer requirement of " \o ToString(BufferOf)
                        \o " minutes not met" }

\* the meeting starts exactly the buffer of 15 minutes after P ends, and no
\* conflict is flagged
C15_Witness ==
    /\ FindConflictsReturned
    /\ BufferOf = 15
    /\ \E e \in BlockEventsOf : e.start >= PEnd /\ e.start - PEnd = BufferOf
    /\ ret.value = NoConflict

\* the same distance on the other side: the meeting ended exactly 15 minutes
\* before P starts
C15_WitnessAfter ==
    /\ FindConflictsReturned
    /\ BufferOf = 15
    /\ \E e \in BlockEventsOf : e.end <= PStart /\ PStart - e.end = BufferOf
    /\ ret.value = NoConflict

-----------------------------------------------------------------------------
FindAvailableSlotReturned == fn = "find_available_slot" /\ ret.returned

\* find_conflicts is None for the task at this start time
Free(c) == FindConflicts(arg.task, c, arg.time_block) = NoConflict

\* c0: max(start_from, time_block.start), advanced to previous_event.end +
\* required_buffer when an event ends at or before it
ScanOrigin ==
    LET base == IF arg.start >= arg.time_block.start
                THEN arg.start ELSE arg.time_block.start
        ended == {e.end : e \in {x \in BlockEventsOf : x.end <= base}}
        previous_end == CHOOSE x \in ended : \A y \in ended : y <= x
    IN  IF ended = {} \/ previous_end + BufferOf <= base
        THEN base
        ELSE previous_end + BufferOf

\* min(task.due_date, time_block.end)
Limit ==
    IF arg.task.due_date <= arg.time_block.end
    THEN arg.task.due_date ELSE arg.time_block.end

\* the candidates c0, c0+15, c0+30, ... inside the window
Candidates == {c \in {ScanOrigin + 15 * k : k \in 0..(Day \div 15)} : c < Limit}

(* C16: find_available_slot returns the earliest candidate of the sequence
   c0, c0+15, c0+30, ... minutes for which find_conflicts is None, where
   c0 = max(start_from, time_block.start), advanced to previous_event.end +
   required_buffer when an event ends at or before it; every earlier
   candidate of that sequence has a conflict, and the result is None when no
   candidate inside the window is conflict-free. *)
C16_EarliestFreeCandidate ==
    FindAvailableSlotReturned =>
        IF ret.value.none
        THEN \A c \in Candidates : ~Free(c)
        ELSE /\ ret.value.value \in Candidates
             /\ Free(ret.value.value)
             /\ \A c \in Candidates : c < ret.value.value => ~Free(c)

\* the scan started behind an event that ended off the quarter hour (09:10),
\* passed candidates with a conflict and returned a later one
C16_Witness ==
    /\ FindAvailableSlotReturned
    /\ ~ret.value.none
    /\ ScanOrigin > arg.start
    /\ ScanOrigin > arg.time_block.start
    /\ ret.value.value > ScanOrigin

\* every candidate of the window has a conflict, and None is returned
C16_NoneReached ==
    /\ FindAvailableSlotReturned
    /\ ret.value.none
    /\ Cardinality(Candidates) > 3

(* C17: any start time s returned by find_available_slot satisfies
   s + task.duration <= min(task.due_date, time_block.end). *)
C17_SlotEndsInsideLimit ==
    (FindAvailableSlotReturned /\ ~ret.value.none) =>
        ret.value.value + arg.task.duration <= Limit

\* the scenario: a matching zone that starts at 09:00 and holds the events
\* evs, a task of 30 minutes with a buffer of 15, start_from = 09:00
Scenario(evs) ==
    /\ FindAvailableSlotReturned
    /\ arg.start = 540
    /\ arg.task = DetectorTask(30, 15, "deep", "high", Day)
    /\ BlockIsZone
    /\ arg.time_block.start = 540
    /\ ~ZoneTypeApplies /\ ~EnergyApplies /\ ~MinDurationApplies
    /\ arg.time_block.events = evs

(* C18 as stated: with one FIXED event 10:00-11:00 in the zone,
   find_available_slot with start_from = 09:00 returns 11:15. *)
C18_AsStated ==
    Scenario(<< Event("E", 600, 660, "fixed", 0) >>) => ret.value = Some(675)

(* C18: scenario: a matching zone that starts at 09:00 holds one FIXED event
   10:00-11:00, the new task lasts 30 minutes and requires a 15-minute
   buffer; find_available_slot with start_from = 09:00 returns 09:00 (the
   slot 09:00-09:30 ends 30 minutes before the event).  With the FIXED event
   at 09:00-11:00 it returns 11:15, not 09:00 and not 11:00. *)
C18_BufferScenario ==
    /\ Scenario(<< Event("E", 600, 660, "fixed", 0) >>) => ret.value = Some(540)
    /\ Scenario(<< Event("X", 540, 660, "fixed", 0) >>) => ret.value = Some(675)

C18_Witness ==
    /\ Scenario(<< Event("E", 600, 660, "fixed", 0) >>)
    /\ arg.time_block.buffer_required = 15
    /\ ret.value = Some(540)

\* the arrangement of test_respects_buffer_requirements is reached too
C18_TestReached ==
    /\ Scenario(<< Event("X", 540, 660, "fixed", 0) >>)
    /\ ret.value = Some(675)

-----------------------------------------------------------------------------
TransitionReturned == fn = "find_zone_transition_conflicts" /\ ret.returned

\* the zones in chronological order
Chronological == SortByStart(arg.zones)

\* the places, in chronological order, of the zones that contain start_time
Containing ==
    {i \in 1..Len(Chronological) :
        /\ Chronological[i].start <= arg.start
        /\ arg.start < Chronological[i].end}

\* the place of the starting zone
StartPlace == CHOOSE i \in Containing : \A j \in Containing : i <= j

StartingZone == Chronological[StartPlace]

NextZone == Chronological[StartPlace + 1]

\* the conflict has this message head, start_zone and end_zone
IsTransitionConflict(v, head, start_zone, end_zone) ==
    /\ v # None
    /\ v.message[1] = head
    /\ v.start_zone = start_zone
    /\ v.end_zone = end_zone

(* C19: find_zone_transition_conflicts returns, in this order of precedence:
   'No valid starting zone found' when no zone contains start_time; when the
   task ends after the starting zone's end, 'Task extends beyond available
   zones' if no chronologically next zone exists, 'Incompatible zone
   transition' if the next zone differs in zone_type or energy_level (with
   start_zone and end_zone set to the two zones), 'Gap between zones' if the
   next zone starts after the starting zone ends; otherwise None. *)
C19_TransitionPrecedence ==
    TransitionReturned =>
        IF Containing = {}
        THEN IsTransitionConflict(ret.value, "No valid starting zone found",
                                  None, None)
        ELSE IF arg.start + arg.task.duration <= StartingZone.end
        THEN ret.value = None
        ELSE IF StartPlace = Len(Chronological)
        THEN IsTransitionConflict(ret.value, "Task extends beyond available zones",
                                  StartingZone, None)
        ELSE IF \/ NextZone.zone_type # StartingZone.zone_type
                \/ NextZone.energy_level # StartingZone.energy_level
        THEN IsTransitionConflict(ret.value, "Incompatible zone transition: ",
                                  StartingZone, NextZone)
        ELSE IF NextZone.start > StartingZone.end
        THEN IsTransitionConflict(ret.value, "Gap between zones: ",
                                  StartingZone, NextZone)
        ELSE ret.value = None

\* the next zone is both incompatible and behind a gap, the zones were given
\* in chronological order or not: the incompatibility is reported
C19_Witness ==
    /\ TransitionReturned
    /\ Containing # {}
    /\ StartPlace < Len(Chronological)
    /\ arg.start + arg.task.duration > StartingZone.end
    /\ NextZone.zone_type # StartingZone.zone_type
    /\ NextZone.start > StartingZone.end
    /\ IsTransitionConflict(ret.value, "Incompatible zone transition: ",
                            StartingZone, NextZone)

\* a compatible, contiguous transition is allowed
C19_NoneReached ==
    /\ TransitionReturned
    /\ Containing # {}
    /\ arg.start + arg.task.duration > StartingZone.end
    /\ ret.value = None

-----------------------------------------------------------------------------
SplitDone == fn = "split"

TooManyChunks == Len(arg.chunk_sizes) > arg.task.constraints.max_split_count

RECURSIVE Total(_)
Total(sizes) == IF sizes = <<>> THEN 0 ELSE Head(sizes) + Total(Tail(sizes))

SumMismatch == Total(arg.chunk_sizes) # arg.task.duration

ChunkTooSmall ==
    \E i \in 1..Len(arg.chunk_sizes) :
        arg.chunk_sizes[i] < arg.task.constraints.min_chunk_duration

NotSplittable == ~arg.task.constraints.is_splittable

(* C20: Task.split(chunk_sizes) raises an error and produces no child task
   whenever any precondition fails: len(chunk_sizes) > max_split_count,
   sum(chunk_sizes) != duration, some chunk < min_chunk_duration, or the
   task is not splittable; when several fail, the error reported is the
   first in exactly that order; the parent task is unchanged. *)
C20_SplitPreconditions ==
    /\ [][fn' = "split" => arg'.task = arg.task]_vars
    /\ [](SplitDone =>
            /\ (TooManyChunks \/ SumMismatch \/ ChunkTooSmall \/ NotSplittable)
                  <=> ("raised" \in DOMAIN ret)
            /\ ("raised" \in DOMAIN ret) =>
                  /\ ~ret.returned
                  /\ "value" \notin DOMAIN ret
                  /\ ret.message =
                        ( IF TooManyChunks
                          THEN "Exceeds maximum split count of "
                                   \o ToString(arg.task.constraints.max_split_count)
                          ELSE IF SumMismatch
                          THEN "Sum of chunk sizes ("
                                   \o ToString(Total(arg.chunk_sizes))
                                   \o ") must equal task duration ("
                                   \o ToString(arg.task.duration) \o ")"
                          ELSE IF ChunkTooSmall
                          THEN "All chunks must be at least "
                                   \o ToString(arg.task.constraints.min_chunk_duration)
                                   \o " minutes"
                          ELSE "Task is not splittable" ))

\* all four preconditions fail at once and the chunk count is reported
C20_Witness ==
    /\ SplitDone
    /\ TooManyChunks /\ SumMismatch /\ ChunkTooSmall /\ NotSplittable
    /\ ret.message = "Exceeds maximum split count of 2"

\* only the last precondition fails
C20_NotSplittableReached ==
    /\ SplitDone
    /\ ~TooManyChunks /\ ~SumMismatch /\ ~ChunkTooSmall /\ NotSplittable
    /\ "raised" \in DOMAIN ret
    /\ ret.message = "Task is not splittable"

-----------------------------------------------------------------------------
\* split returned its list of chunks
SplitReturned == fn = "split" /\ ret.returned

Chunks == ret.value

\* the durations of the chunks, in order
ChunkDurations == [i \in 1..Len(Chunks) |-> Chunks[i].duration]

(* C21: split conservation: every successful Task.split(sizes) returns
   exactly len(sizes) children, child i (1-indexed) has duration sizes[i-1]
   and id {parentId}_chunk_{i}, the child durations sum to parent.duration,
   and no child is itself splittable. *)
C21_SplitConservation ==
    SplitReturned =>
        /\ Len(Chunks) = Len(arg.chunk_sizes)
        /\ \A i \in 1..Len(Chunks) :
              /\ Chunks[i].duration = arg.chunk_sizes[i]
              /\ Chunks[i].id = arg.task.id \o "_chunk_" \o ToString(i)
              /\ ~Chunks[i].constraints.is_splittable
        /\ Total(ChunkDurations) = arg.task.duration

\* a task of 120 minutes split in three unequal chunks
C21_Witness ==
    /\ SplitReturned
    /\ arg.task.duration = 120
    /\ arg.chunk_sizes = <<30, 60, 30>>
    /\ Len(Chunks) = 3
    /\ Chunks[3].id = "P_chunk_3"

\* the ids of the chunks from chunk i on
FromChunk(i) == {Chunks[j].id : j \in i..Len(Chunks)}

\* the ids a chunk depends on
DependsOn(chunk) ==
    {chunk.constraints.dependencies[k] :
        k \in 1..Len(chunk.constraints.dependencies)}

(* C22: the children of Task.split form a linear dependency chain: chunk 1
   has exactly the parent's dependency list, and every chunk i > 1 depends
   solely on {parentId}_chunk_{i-1}; no chunk depends on itself or on a
   later chunk. *)
C22_DependencyChain ==
    SplitReturned =>
        \A i \in 1..Len(Chunks) :
            /\ i = 1 =>
                  Chunks[i].constraints.dependencies
                      = arg.task.constraints.dependencies
            /\ i > 1 =>
                  Chunks[i].constraints.dependencies
                      = <<arg.task.id \o "_chunk_" \o ToString(i - 1)>>
            /\ DependsOn(Chunks[i]) \cap FromChunk(i) = {}

\* a task that depends on D is split in three chunks
C22_Witness ==
    /\ SplitReturned
    /\ arg.task.constraints.dependencies = <<"D">>
    /\ Len(Chunks) = 3
    /\ Chunks[1].constraints.dependencies = <<"D">>
    /\ Chunks[3].constraints.dependencies = <<"P_chunk_2">>

(* C23: the sequence_number of chunk i is parent.sequence_number * 1000 + i,
   and these numbers never collide with the sequence_number of a sibling
   task of the same project (a task with a different non-negative
   sequence_number than the parent), for any parent sequence_number >= 0
   and any permitted chunk count. *)
C23_NoSiblingCollision ==
    SplitReturned =>
        \A i \in 1..Len(Chunks) :
            /\ Chunks[i].sequence_number = arg.task.sequence_number * 1000 + i
            /\ arg.sibling.project_id = arg.task.project_id
                  => Chunks[i].sequence_number # arg.sibling.sequence_number

\* the numbers of the chunks are those of the formula
C23_NumbersAsStated ==
    SplitReturned =>
        \A i \in 1..Len(Chunks) :
            Chunks[i].sequence_number = arg.task.sequence_number * 1000 + i

\* the first task of a project (sequence_number 0) is split: its first
\* chunk gets the sequence_number 1 of the second task of the project
C23_Collision ==
    /\ SplitReturned
    /\ arg.task.sequence_number = 0
    /\ arg.sibling.sequence_number = 1
    /\ arg.sibling.project_id = arg.task.project_id
    /\ Chunks[1].sequence_number = 1

-----------------------------------------------------------------------------
ValidateDone == fn = "validate"

\* the errors returned, as a set
ErrorsReturned == {ret.value[i] : i \in 1..Len(ret.value)}

DurationViolated == arg.task.duration <= 0

DueDateViolated == arg.task.due_date < arg.now

SequenceViolated == arg.task.sequence_number < 0

ChunksViolated ==
    /\ arg.task.constraints.is_splittable
    /\ arg.task.constraints.min_chunk_duration
           * arg.task.constraints.max_split_count > arg.task.duration

\* the number of rules the task violates
ViolatedCount ==
    (IF DurationViolated THEN 1 ELSE 0) + (IF DueDateViolated THEN 1 ELSE 0)
      + (IF SequenceViolated THEN 1 ELSE 0) + (IF ChunksViolated THEN 1 ELSE 0)

ChunksMessage ==
    "Total minimum chunk duration ("
       \o ToString(arg.task.constraints.min_chunk_duration
                       * arg.task.constraints.max_split_count)
       \o " min) exceeds task duration ("
       \o ToString(arg.task.duration) \o " min)"

(* C24: Task.validate never raises and returns one error per violated rule,
   all violated rules at once (duration <= 0; due_date earlier than now;
   sequence_number < 0; splittable with min_chunk_duration * max_split_count
   > duration); the list is empty iff no rule is violated, and the task is
   not modified. *)
C24_ValidateAllRules ==
    /\ [][fn' = "validate" => arg'.task = arg.task]_vars
    /\ [](ValidateDone =>
            /\ ret.returned
            /\ Len(ret.value) = ViolatedCount
            /\ DurationViolated
                  <=> "Task duration must be positive" \in ErrorsReturned
            /\ DueDateViolated
                  <=> "Due date cannot be in the past" \in ErrorsReturned
            /\ SequenceViolated
                  <=> "Sequence number must be non-negative" \in ErrorsReturned
            /\ ChunksViolated <=> ChunksMessage \in ErrorsReturned
            /\ ret.value = <<>>
                  <=> ~(DurationViolated \/ DueDateViolated
                          \/ SequenceViolated \/ ChunksViolated))

\* the four rules are violated together and four errors come back
C24_Witness ==
    /\ ValidateDone
    /\ DurationViolated /\ DueDateViolated /\ SequenceViolated /\ ChunksViolated
    /\ Len(ret.value) = 4

\* a valid task: no error
C24_ValidReached ==
    /\ ValidateDone
    /\ ViolatedCount = 0
    /\ arg.task.constraints.is_splittable
    /\ ret.value = <<>>

-----------------------------------------------------------------------------
\* the half-open intervals [a1, a2) and [b1, b2) have a minute in common
Intersects(a1, a2, b1, b2) == \E m \in a1..(a2 - 1) : b1 <= m /\ m < b2

\* the events of the block that overlap [from, to)
EventsWithin(from, to) ==
    {arg.time_block.events[i] : i \in
        {j \in 1..Len(arg.time_block.events) :
            Intersects(from, to, arg.time_block.events[j].start,
                       arg.time_block.events[j].end)}}

\* the events returned, as a set
EventsReturned == {ret.value[i] : i \in 1..Len(ret.value)}

AskedEnd == arg.start + arg.duration

WithinBounds ==
    arg.start >= arg.time_block.start /\ AskedEnd <= arg.time_block.end

(* C25: TimeBlock.get_conflicts(start, duration) returns exactly the events
   whose interval overlaps the half-open interval [start, start+duration)
   (an event that only touches an endpoint is not returned), and
   TimeBlock.is_available(start, duration) is true iff start >= block.start,
   start+duration <= block.end and get_conflicts is empty. *)
C25_TimeBlockConflicts ==
    /\ fn = "TimeBlock.get_conflicts" =>
          /\ EventsReturned = EventsWithin(arg.start, AskedEnd)
          /\ Len(ret.value) = Cardinality(EventsReturned)
    /\ fn = "TimeBlock.is_available" =>
          ( ret.value <=>
              /\ WithinBounds
              /\ EventsWithin(arg.start, AskedEnd) = {} )

\* the proposed interval 11:00-11:30 starts where the event 10:00-11:00 ends
C25_Witness ==
    /\ fn = "TimeBlock.get_conflicts"
    /\ arg.time_block.events = << Event("E", 600, 660, "fixed", 0) >>
    /\ arg.start = 660
    /\ arg.duration = 30
    /\ ret.value = <<>>

\* an overlapping event is returned, and the block is not available
C25_ConflictReached ==
    /\ fn = "TimeBlock.is_available"
    /\ WithinBounds
    /\ EventsWithin(arg.start, AskedEnd) # {}
    /\ ret.value = FALSE

\* a free interval inside the block is available
C25_AvailableReached ==
    /\ fn = "TimeBlock.is_available"
    /\ arg.time_block.events # <<>>
    /\ ret.value = TRUE

(* C26: TimeBlockZone.get_conflicts returns, each at most once, the events
   overlapping [start - buffer_required, start + duration + buffer_required)
   - so an event ending exactly at the proposed start is a conflict when
   buffer_required > 0 and an event exactly buffer_required minutes away is
   not - and TimeBlockZone.is_available is false whenever duration <
   min_duration, the interval leaves the zone bounds, or get_conflicts is
   non-empty. *)
C26_ZoneConflicts ==
    /\ fn = "TimeBlockZone.get_conflicts" =>
          /\ EventsReturned
                = EventsWithin(arg.start - arg.time_block.buffer_required,
                               AskedEnd + arg.time_block.buffer_required)
          /\ Len(ret.value) = Cardinality(EventsReturned)
    /\ fn = "TimeBlockZone.is_available" =>
          ( ( \/ arg.duration < arg.time_block.min_duration
              \/ ~WithinBounds
              \/ EventsWithin(arg.start - arg.time_block.buffer_required,
                              AskedEnd + arg.time_block.buffer_required) # {} )
            => ret.value = FALSE )

\* in a zone with a buffer of 15 minutes, the event 10:00-11:00 that ends at
\* the proposed start 11:00 is a conflict
C26_Witness ==
    /\ fn = "TimeBlockZone.get_conflicts"
    /\ arg.time_block.buffer_required = 15
    /\ arg.time_block.events = << Event("E", 600, 660, "fixed", 0) >>
    /\ arg.start = 660
    /\ ret.value = << Event("E", 600, 660, "fixed", 0) >>

\* the same event is no conflict for a proposed start of 11:15
C26_BufferAwayReached ==
    /\ fn = "TimeBlockZone.get_conflicts"
    /\ arg.time_block.buffer_required = 15
    /\ arg.time_block.events = << Event("E", 600, 660, "fixed", 0) >>
    /\ arg.start = 675
    /\ ret.value = <<>>

\* one event overlaps the proposed interval, another lies in its margin
C26_BothKindsReached ==
    /\ fn = "TimeBlockZone.get_conflicts"
    /\ Len(ret.value) = 2
    /\ EventsWithin(arg.start, AskedEnd) = {ret.value[1]}

\* the zone is free around the interval but the duration is below min_duration
C26_TooShortReached ==
    /\ fn = "TimeBlockZone.is_available"
    /\ arg.duration < arg.time_block.min_duration
    /\ WithinBounds
    /\ arg.time_block.events = <<>>
    /\ ret.value = FALSE

-----------------------------------------------------------------------------
\* the MANAGED events of a calendar, in creation order
ManagedIn(cal) == SelectSeq(cal, LAMBDA e : e.type = "managed")

\* the FIXED events of a calendar, with their start and end
FixedIn(cal) == {cal[i] : i \in {j \in 1..Len(cal) : cal[j].type = "fixed"}}

\* the places of the calls of an operation in the log of the current call
CallsOf(name) == {i \in 1..Len(calls) : calls[i].op = name}

\* the events passed to create_event, in call order
EventsCreated ==
    LET IsCreate(c) == c.op = "create_event"
        creates == SelectSeq(calls, IsCreate)
    IN  [i \in 1..Len(creates) |-> creates[i].event]

\* schedule_tasks with a non-empty task list is under way or has ended
InScheduleTasks == fn = "schedule_tasks" /\ repo_tasks # <<>>

ScheduleTasksReturned == InScheduleTasks /\ spc = "returned"

(* C27: in Scheduler.schedule_tasks with a non-empty task list,
   remove_managed_events is called exactly once, after the strategy has
   produced the schedule and before any create_event; create_event is then
   called once per returned event in list order; on normal return the
   MANAGED events of the calendar are exactly the returned events. *)
C27_WipeThenWrite ==
    InScheduleTasks =>
        /\ Cardinality(CallsOf("remove_managed_events")) <= 1
        /\ CallsOf("remove_managed_events") # {} => pc = "done"
        /\ \A c \in CallsOf("create_event") :
              \E r \in CallsOf("remove_managed_events") : r < c
        /\ spc = "write" => EventsCreated = SubSeq(result, 1, written)
        /\ spc = "returned" =>
              /\ Cardinality(CallsOf("remove_managed_events")) = 1
              /\ ret.returned
              /\ ret.value = result
              /\ EventsCreated = ret.value
              /\ ManagedIn(calendar) = ret.value

\* the calendar held a FIXED and a MANAGED event; two tasks were placed and
\* three events written
C27_Witness ==
    /\ ScheduleTasksReturned
    /\ ncalls = 1
    /\ FixedIn(calendar) # {}
    /\ Len(ret.value) = 3
    /\ Len(EventsCreated) = 3

\* a MANAGED event after the planning window is removed and not written again
C27_OutsideWindowReached ==
    /\ ScheduleTasksReturned
    /\ ncalls = 1
    /\ Len(ret.value) = 1
    /\ Len(calendar) = 2

(* C28: no sequence of Scheduler.schedule_tasks and Scheduler.reschedule
   calls adds, removes, moves or otherwise changes a FIXED event: the set of
   FIXED events in the calendar, with their start and end, is the same after
   every call as before it, and no FIXED event passed to the strategy is
   mutated. *)
C28_FixedUntouched ==
    [][ /\ FixedIn(calendar') = FixedIn(calendar)
        /\ spc = "strategy" =>
              /\ existing_events' = existing_events
              /\ zones' = zones
              /\ FixedIn(events) \subseteq FixedIn(events') ]_vars

\* schedule_tasks wrote events next to a FIXED event, then reschedule wiped
\* them and returned a schedule around the FIXED event
C28_Witness ==
    /\ ncalls = 2
    /\ fn = "reschedule"
    /\ spc = "returned"
    /\ prev.fn = "schedule_tasks"
    /\ prev.ret.returned
    /\ prev.ret.value # <<>>
    /\ FixedIn(existing_events) # {}
    /\ FixedIn(calendar) = {F1}
    /\ ret.value # <<>>

RescheduleReturned == fn = "reschedule" /\ spc = "returned"

(* C29: Scheduler.reschedule follows the same wipe-then-rewrite pattern as
   schedule_tasks: it removes all MANAGED events from the calendar and then
   writes every newly produced event to the calendar through create_event,
   so after it returns the MANAGED events of the calendar are exactly the
   returned events. *)
C29_RescheduleRewrites ==
    RescheduleReturned =>
        /\ CallsOf("remove_managed_events") # {}
        /\ EventsCreated = ret.value
        /\ ManagedIn(calendar) = ret.value

\* reschedule wipes the MANAGED events
C29_WipeReached ==
    /\ RescheduleReturned
    /\ ncalls = 1
    /\ CallsOf("remove_managed_events") = {1}
    /\ ManagedIn(calendar) = <<>>
    /\ ret.value # <<>>

\* the second of two reschedule calls with the same arguments has ended
SecondReschedule ==
    /\ fn = "reschedule"
    /\ prev.fn = "reschedule"
    /\ prev.arg = arg
    /\ spc \in {"returned", "raised"}

(* C30: idempotent reschedule: calling Scheduler.reschedule twice with the
   same task list and the same fixed events (same planning start) returns
   equivalent schedules - same event ids, same durations, same start times
   and same order - and the first call leaves the task list and the
   fixed_events list unmodified. *)
C30_IdempotentReschedule ==
    /\ [](SecondReschedule => ret = prev.ret)
    /\ [][fn = "reschedule" /\ spc = "strategy" =>
            /\ arg' = arg
            /\ repo_tasks' = repo_tasks
            /\ tasks' = tasks
            /\ tasks = arg.tasks]_vars

\* two reschedule calls around the FIXED event F1 return the same two events
C30_Witness ==
    /\ SecondReschedule
    /\ spc = "returned"
    /\ arg.fixed_events = Some(<< F1 >>)
    /\ Len(ret.value) = 2
    /\ ret.value = prev.ret.value

-----------------------------------------------------------------------------
\* create_event raised inside the write loop of schedule_tasks
WriteLoopRaised == fn = "schedule_tasks" /\ spc = "raised"

\* the MANAGED events the calendar held when the call was entered
ManagedBefore == {prev.calendar[i] : i \in
                     {j \in 1..Len(prev.calendar) : prev.calendar[j].type = "managed"}}

(* C31: if create_event raises on the k-th event of the write loop of
   Scheduler.schedule_tasks, the exception propagates with no retry and no
   rollback: the calendar then holds exactly the first k-1 new events as
   MANAGED events and none of the MANAGED events it held before the call. *)
C31_NoRollback ==
    WriteLoopRaised =>
        /\ "raised" \in DOMAIN ret
        /\ Cardinality(CallsOf("create_event")) = written + 1
        /\ ManagedIn(calendar) = SubSeq(result, 1, written)
        /\ \A e \in ManagedBefore : e \notin Range(calendar)

\* the same without the part about the events held before the call
C31_PrefixWritten ==
    WriteLoopRaised =>
        /\ "raised" \in DOMAIN ret
        /\ Cardinality(CallsOf("create_event")) = written + 1
        /\ ManagedIn(calendar) = SubSeq(result, 1, written)

\* create_event raised on the second event; the first event written is the
\* MANAGED event M0 that the calendar held before the call
C31_OldEventKept ==
    /\ WriteLoopRaised
    /\ written = 1
    /\ M0 \in ManagedBefore
    /\ ManagedIn(calendar) = << M0 >>

-----------------------------------------------------------------------------
\* schedule has returned
ScheduleReturned == pc = "done"

(* C32: SequenceBasedStrategy.schedule returns only events of type MANAGED:
   no FIXED or ZONE event of existing_events is ever in the returned list,
   also when scheduling stops early by deadlock or placement failure, and
   the result is the empty list when no zone is supplied. *)
C32_OnlyManagedReturned ==
    ScheduleReturned =>
        /\ \A i \in 1..Len(result) : result[i].type = "managed"
        /\ \A i \in 1..Len(existing_events) :
              existing_events[i].type \in {"fixed", "zone"}
                  => existing_events[i] \notin Range(result)
        /\ zones = <<>> => result = <<>>

\* a FIXED and a ZONE event were given, one task was placed in chunks and
\* the next one ran into a dependency deadlock
C32_Witness ==
    /\ ScheduleReturned
    /\ outcome = "deadlock"
    /\ existing_events = << Z0, F1 >>
    /\ Len(result) = 3

\* the same for a placement failure
C32_BlockedReached ==
    /\ ScheduleReturned
    /\ outcome = "blocked"
    /\ existing_events = << Z0, F1 >>
    /\ result # <<>>

\* no zone is supplied
C32_NoZonesReached ==
    /\ ScheduleReturned
    /\ zones = <<>>
    /\ tasks # <<>>
    /\ result = <<>>

-----------------------------------------------------------------------------
\* the ids of the events a call may create for its tasks: the id of a task
\* or of one of its chunks
IdsOfTasks ==
    {tasks[i].id : i \in 1..Len(tasks)}
        \cup {ChunkId(tasks[i].id, n) : i \in 1..Len(tasks), n \in 1..MaxChunks}

\* no two events of the list have the same id
DistinctIds(evs) == \A i, j \in 1..Len(evs) : evs[i].id = evs[j].id => i = j

(* C33: the list returned by SchedulingStrategy.schedule (and by
   Scheduler.schedule_tasks) contains only events newly created for the
   tasks of this call, at most one single-block event or one chunk series
   per task: no event that was already in existing_events is returned or
   written again, so two consecutive schedule_tasks calls with the same
   tasks never leave two calendar events with the same id. *)
C33_OnlyNewEvents ==
    ScheduleTasksReturned =>
        /\ \A i \in 1..Len(ret.value) :
              /\ ret.value[i] \notin Range(existing_events)
              /\ ret.value[i].id \in IdsOfTasks
        /\ DistinctIds(ret.value)
        /\ Range(existing_events) \cap Range(EventsCreated) = {}
        /\ DistinctIds(calendar)

\* the second of two schedule_tasks calls returns the events of the first
\* call and new events for the same tasks
C33_TwiceReached ==
    /\ ScheduleTasksReturned
    /\ prev.fn = "schedule_tasks"
    /\ Len(repo_tasks) = 1
    /\ Len(ret.value) = 2
    /\ ret.value[1].id = ret.value[2].id
    /\ ~DistinctIds(calendar)

-----------------------------------------------------------------------------
(* Claims about SplitStrategy.calculate_optimal_split *)

OptimalSplitDone == fn = "calculate_optimal_split"

MetricsReturned == OptimalSplitDone /\ ret.returned /\ ret.value # None

\* C34: calculate_optimal_split returns None exactly when available_zones is
\* empty or total_duration <= 0; otherwise, for every max_splits >= 0, it
\* returns metrics (it does not divide by zero) with
\* optimal_chunk_count = min(ceil(total_duration / 120), max_splits + 1),
\* chunk_duration = ceil(total_duration / optimal_chunk_count),
\* total_buffer_time = (chunks - 1) * 15 + chunks * 30, and
\* chunks * chunk_duration >= total_duration.
C34_OptimalSplitMetrics ==
    OptimalSplitDone =>
        /\ (ret.returned /\ ret.value = None)
               <=> (arg.available_zones = <<>> \/ arg.total_duration <= 0)
        /\ (arg.available_zones # <<>> /\ arg.total_duration > 0 /\ arg.max_splits >= 0) =>
               /\ ret.returned
               /\ ret.value # None
               /\ LET m == ret.value.value
                      n == m.optimal_chunk_count
                      \* ceil(total_duration / 120): the least k with 120 * k >= total_duration
                      k == CHOOSE c \in 0..arg.total_duration :
                               /\ 120 * c >= arg.total_duration
                               /\ 120 * (c - 1) < arg.total_duration
                  IN  /\ n = (IF k <= arg.max_splits + 1 THEN k ELSE arg.max_splits + 1)
                      /\ n >= 1
                      /\ n * m.chunk_duration >= arg.total_duration
                      /\ n * (m.chunk_duration - 1) < arg.total_duration
                      /\ m.total_buffer_time = (n - 1) * 15 + n * 30

\* the chunk count is capped by max_splits + 1 and the duration does not
\* divide evenly
C34_Witness ==
    /\ MetricsReturned
    /\ arg.total_duration = 241
    /\ arg.max_splits = 1
    /\ ret.value.value.optimal_chunk_count = 2
    /\ ret.value.value.chunk_duration = 121
    /\ ret.value.value.total_buffer_time = 75

\* max_splits = 0 gives one chunk of the whole duration
C34_ZeroSplitsReached ==
    /\ MetricsReturned
    /\ arg.max_splits = 0
    /\ arg.total_duration = 480
    /\ ret.value.value.optimal_chunk_count = 1
    /\ ret.value.value.chunk_duration = 480

\* None is returned for a positive duration without zones
C34_NoneReached ==
    /\ OptimalSplitDone
    /\ ret.returned
    /\ ret.value = None
    /\ arg.total_duration > 0

\* C35: whenever calculate_optimal_split returns metrics for
\* total_duration > 0, min_chunk_duration <= total_duration and
\* max_splits >= 1, chunk_duration >= min_chunk_duration and
\* optimal_chunk_count <= max_splits.
C35_MetricsWithinConstraints ==
    (/\ MetricsReturned
     /\ arg.total_duration > 0
     /\ arg.min_chunk_duration <= arg.total_duration
     /\ arg.max_splits >= 1) =>
        /\ ret.value.value.chunk_duration >= arg.min_chunk_duration
        /\ ret.value.value.optimal_chunk_count <= arg.max_splits

\* the chunk count alone is exceeded: max_splits + 1 chunks
C35_CountExceeded ==
    /\ MetricsReturned
    /\ arg.max_splits >= 1
    /\ arg.min_chunk_duration <= arg.total_duration
    /\ ret.value.value.chunk_duration >= arg.min_chunk_duration
    /\ ret.value.value.optimal_chunk_count = arg.max_splits + 1

\* the chunk duration alone falls below min_chunk_duration
C35_ChunkTooShort ==
    /\ MetricsReturned
    /\ arg.max_splits >= 1
    /\ arg.min_chunk_duration <= arg.total_duration
    /\ ret.value.value.optimal_chunk_count <= arg.max_splits
    /\ ret.value.value.chunk_duration < arg.min_chunk_duration

-----------------------------------------------------------------------------
(* Claims about the placement of chunks and single blocks *)

\* the events of the list that overlap the zone, by start
ZoneEvents(zone, evs) ==
    LET Within(e) == e.end > zone.start /\ e.start < zone.end
    IN  SortByStart(SelectSeq(evs, Within))

\* the gaps of a zone, numbered in scan order: gap 0 lies before the first
\* event, gap i behind the i-th event, buffer minutes after its end
GapStart(zone, evs, buffer, i) ==
    IF i = 0 THEN zone.start ELSE ZoneEvents(zone, evs)[i].end + buffer

GapEnd(zone, evs, i) ==
    IF i = Len(ZoneEvents(zone, evs))
    THEN zone.end
    ELSE ZoneEvents(zone, evs)[i + 1].start

GapFits(zone, evs, buffer, i, duration) ==
    GapEnd(zone, evs, i) - GapStart(zone, evs, buffer, i) >= duration

\* the zones of the task's zone_type, in chronological order
ZonesOfType(t) ==
    LET OfType(z) == z.zone_type = t.constraints.zone_type
    IN  SelectSeq(SortByStart(all_zones), OfType)

\* a step of split placement that places a chunk
ChunkPlaced == pc = "split" /\ Len(task_events') = Len(task_events) + 1

\* the chunk starts the i-th gap of the k-th zone, which takes it, and no gap
\* scanned before does
FirstGap(t, evs, chunk, k, i) ==
    LET zs == ZonesOfType(t)
        buffer == t.constraints.required_buffer
    IN  /\ chunk.start = GapStart(zs[k], evs, buffer, i)
        /\ GapFits(zs[k], evs, buffer, i, Duration(chunk))
        /\ \A j \in 0..(i - 1) : ~GapFits(zs[k], evs, buffer, j, Duration(chunk))
        /\ \A h \in 1..(k - 1) : \A j \in 0..Len(ZoneEvents(zs[h], evs)) :
               ~GapFits(zs[h], evs, buffer, j, Duration(chunk))

\* the example: 240 minutes in two chunks of 120 with a buffer of 15, zones
\* of 240 minutes day after day and nothing in the calendar
OnePerDay ==
    \A p \in 1..Len(placed) :
        LET t == TaskById(placed[p].task)
            zs == ZonesOfType(t)
        IN  (/\ t.constraints.is_splittable
             /\ t.duration = 240
             /\ OptimalChunkSize(t) = 120
             /\ t.constraints.required_buffer = 15
             /\ events = placed[p].evs
             /\ \A k \in 1..Len(zs) : zs[k].end - zs[k].start = 240
             /\ \A k \in 1..(Len(zs) - 1) : zs[k + 1].start = zs[k].start + Day) =>
                /\ Len(placed[p].evs) = 2
                /\ \A c \in 1..2 :
                       /\ placed[p].evs[c].start = zs[c].start
                       /\ placed[p].evs[c].end = zs[c].start + 120

\* C36: split placement puts each chunk at the start of the first gap of at
\* least the chunk duration, scanning the zones of the task's zone_type in
\* chronological order and, inside a zone, the gap before the first event,
\* the gaps between consecutive events and the gap after the last event,
\* where a gap that follows an event begins required_buffer minutes after
\* that event ends; so a 240-minute task in two 120-minute chunks with a
\* 15-minute buffer, against 240-minute zones on consecutive days, gets one
\* chunk per day, each at the zone start.
C36_ChunkInFirstGap ==
    /\ [][ChunkPlaced =>
            LET chunk == task_events'[Len(task_events')]
            IN  \E k \in 1..Len(ZonesOfType(task)) :
                    \E i \in 0..Len(ZoneEvents(ZonesOfType(task)[k], current_events)) :
                        FirstGap(task, current_events, chunk, k, i)]_vars
    /\ []OnePerDay

\* the example of the claim has run
C36_Witness ==
    /\ ScheduleReturned
    /\ tasks = <<SplittableTask>>
    /\ existing_events = <<>>
    /\ Len(placed) = 1
    /\ placed[1].evs[1].start = 540
    /\ placed[1].evs[2].start = Day + 540

\* a chunk was placed in a gap between two events, behind the buffer
C36_BetweenReached ==
    \E p \in 1..Len(placed) : \E c \in 1..Len(placed[p].evs) :
        \E e \in Range(existing_events) :
            /\ TaskById(placed[p].task).constraints.is_splittable
            /\ TaskById(placed[p].task).constraints.required_buffer > 0
            /\ placed[p].evs[c].start = e.end + TaskById(placed[p].task).constraints.required_buffer
            /\ \E f \in Range(existing_events) : f.start >= placed[p].evs[c].end

\* a chunk was placed in the gap before the first event of a zone
C36_BeforeFirstReached ==
    \E p \in 1..Len(placed) : \E c \in 1..Len(placed[p].evs) :
        \E e \in Range(existing_events) :
            /\ TaskById(placed[p].task).constraints.is_splittable
            /\ placed[p].evs[c].start = 540
            /\ e.start >= placed[p].evs[c].end
            /\ e.start < 780

\* a step of schedule that tries a task as a single block
SingleAttempted ==
    /\ pc = "loop"
    /\ Len(attempts') = Len(attempts) + 1
    /\ pc' # "split"

\* the task of that step
Attempted == TaskById(attempts'[Len(attempts')])

\* the start the claim gives for a zone: behind the last event of the list
\* and the greater of the two buffers, and not before the zone starts
Candidate(t, zone) ==
    IF events = <<>>
    THEN zone.start
    ELSE LET last == events[Len(events)]
             behind == last.end + (IF t.constraints.required_buffer >= last.buffer_required
                                   THEN t.constraints.required_buffer
                                   ELSE last.buffer_required)
         IN  IF zone.start >= behind THEN zone.start ELSE behind

\* the places, in the projected list, of the zones that qualify for the task
Qualifying(t) ==
    {k \in 1..Len(all_zones) :
        /\ all_zones[k].zone_type = t.constraints.zone_type
        /\ Candidate(t, all_zones[k]) + t.duration <= all_zones[k].end
        /\ FindConflicts(t, Candidate(t, all_zones[k]), all_zones[k]) = NoConflict}

\* C37: single-block placement puts the task in the first zone, in projected
\* list order, whose zone_type matches and for which candidate =
\* max(zone.start, last.end + max(task.required_buffer, last.buffer_required))
\* (zone.start when no event exists yet) satisfies candidate + duration <=
\* zone.end and find_conflicts(task, candidate, zone) is None; the created
\* event is a MANAGED event [candidate, candidate + duration) with the
\* task's id, and the task fails if no zone qualifies.
C37_SingleBlockPlacement ==
    [][SingleAttempted =>
          IF Qualifying(Attempted) = {}
          THEN /\ outcome' = "blocked"
               /\ events' = events
               /\ Attempted.id \notin scheduled_task_ids'
               /\ result' = ManagedOnly(events)
          ELSE LET k == CHOOSE i \in Qualifying(Attempted) :
                            \A j \in Qualifying(Attempted) : i <= j
                   candidate == Candidate(Attempted, all_zones[k])
                   created == events'[Len(events')]
               IN  /\ Len(events') = Len(events) + 1
                   /\ SubSeq(events', 1, Len(events)) = events
                   /\ created.id = Attempted.id
                   /\ created.type = "managed"
                   /\ created.start = candidate
                   /\ created.end = candidate + Attempted.duration
                   /\ Attempted.id \in scheduled_task_ids'
                   /\ outcome' = outcome]_vars

\* a single block was placed behind an existing event and the buffer of the
\* task, and another one behind it and its buffer
C37_Witness ==
    /\ ScheduleReturned
    /\ existing_events = <<F1>>
    /\ Len(placed) = 2
    /\ ~TaskById(placed[1].task).constraints.is_splittable
    /\ placed[1].evs[1].start = F1.end + 15
    /\ placed[2].evs[1].start = placed[1].evs[1].end + 15

\* the buffer of the last event pushes the block out of the first zone
C37_NextDayReached ==
    /\ ScheduleReturned
    /\ existing_events = <<M0>>
    /\ Len(placed) = 1
    /\ ~TaskById(placed[1].task).constraints.is_splittable
    /\ placed[1].evs[1].start = Day + 540

\* a single block found no qualifying zone
C37_FailedReached ==
    /\ ScheduleReturned
    /\ outcome = "blocked"
    /\ ~FailedTask.constraints.is_splittable
    /\ Len(placed) = 1

\* C38: the chunks of one split task are placed in chronological order of
\* their index: for every k, chunk k+1 starts at or after the end of chunk k,
\* also when the last chunk is shorter than the earlier ones and would fit
\* into an earlier gap.
C38_ChunksInIndexOrder ==
    \A p \in 1..Len(placed) :
        \A k \in 1..(Len(placed[p].evs) - 1) :
            placed[p].evs[k + 1].start >= placed[p].evs[k].end

\* a split task whose last chunk is shorter has its chunks in index order
C38_OrderedReached ==
    \E p \in 1..Len(placed) :
        /\ Len(placed[p].evs) = 3
        /\ Duration(placed[p].evs[3]) < Duration(placed[p].evs[2])
        /\ \A k \in 1..2 : placed[p].evs[k + 1].start >= placed[p].evs[k].end

\* the shorter last chunk lies in the gap before the event that the first
\* chunk was placed behind
C38_EarlierGapReached ==
    \E p \in 1..Len(placed) :
        /\ Len(placed[p].evs) = 2
        /\ Duration(placed[p].evs[2]) < Duration(placed[p].evs[1])
        /\ placed[p].evs[2].end <= F1.start
        /\ placed[p].evs[1].start >= F1.end

-----------------------------------------------------------------------------
(* Claims about the zones a task runs through *)

\* the zone has the zone_type and energy_level of the starting zone
LikeStartingZone(z) ==
    /\ z.zone_type = StartingZone.zone_type
    /\ z.energy_level = StartingZone.energy_level

\* every minute of [start_time, start_time + duration) lies in a zone that is
\* like the starting zone
IntervalCovered ==
    \A m \in arg.start..(arg.start + arg.task.duration - 1) :
        \E z \in Range(arg.zones) :
            /\ LikeStartingZone(z)
            /\ z.start <= m
            /\ m < z.end

\* C39: when find_zone_transition_conflicts returns None, the whole interval
\* [start_time, start_time + task.duration) is covered by contiguous zones
\* that all have the zone_type and energy_level of the starting zone, also
\* when the task extends beyond the end of the zone that follows the
\* starting zone.
C39_NoneMeansCovered ==
    (TransitionReturned /\ ret.value = None) =>
        /\ Containing # {}
        /\ IntervalCovered

\* None for a task that ends inside the zone that follows the starting zone:
\* the two zones cover it
C39_TwoZonesReached ==
    /\ TransitionReturned
    /\ ret.value = None
    /\ arg.start + arg.task.duration > StartingZone.end
    /\ arg.start + arg.task.duration <= NextZone.end
    /\ IntervalCovered

\* None for a task that runs on after the end of the zone that follows the
\* starting zone, where no zone is left
C39_BeyondNextZoneReached ==
    /\ TransitionReturned
    /\ ret.value = None
    /\ StartPlace + 1 = Len(Chronological)
    /\ arg.start + arg.task.duration > NextZone.end
    /\ NextZone.end > StartingZone.end
    /\ ~IntervalCovered

-----------------------------------------------------------------------------
(* Claims about due dates *)

\* C40: every event that schedule creates for a task (single block or chunk)
\* ends at or before that task's due_date; a task that cannot be finished by
\* its due_date inside the 7-day projection is reported as unplaceable
\* instead of being placed late.
C40_NothingPlacedLate ==
    \A c \in Created : c.event.end <= TaskById(c.task).due_date

\* a single block that ends on the day after its due date
C40_LateBlockReached ==
    \E c \in Created :
        /\ ~TaskById(c.task).constraints.is_splittable
        /\ c.event.id = c.task
        /\ c.event.end > TaskById(c.task).due_date
        /\ c.event.start >= Day

\* a chunk that ends after the due date of its task
C40_LateChunkReached ==
    \E c \in Created :
        /\ TaskById(c.task).constraints.is_splittable
        /\ c.event.end > TaskById(c.task).due_date

\* a split task finished before its due date
C40_InTimeReached ==
    /\ ScheduleReturned
    /\ tasks = <<SplittableTask>>
    /\ Len(placed) = 1
    /\ \A k \in 1..Len(placed[1].evs) : placed[1].evs[k].end <= SplittableTask.due_date

====
